---- MODULE Spec2Model ----
(***************************************************************************)
(* A model of the persistence event layer (faraday/server/events.py), of   *)
(* the generic resource API framework (server/api/base.py) and of the      *)
(* schema migration b31fa447f00c.                                          *)
(*                                                                         *)
(* The specifications that share the module:                               *)
(*   Spec            the severities histogram maintained by the            *)
(*                   vulnerability insert / update / delete hooks;         *)
(*   SpecBulk        the hooks of query-level deletes and updates;         *)
(*   SpecHistories   the update hook on every shape of attribute history;  *)
(*   SpecEvents      the Host/Service hooks: workspace check, change queue;*)
(*   SpecCascade     the cascade deletion of annotations by the delete     *)
(*                   hook;                                                 *)
(*   SpecTx          the hooks in transactions that may roll back;         *)
(*   SpecQueue       concurrent request flows and queue consumers;         *)
(*   SpecHistogramTx concurrent transactions writing the histogram row;    *)
(*   SpecApi         the workspace-scoped read-write view;                 *)
(*   SpecCount       the count endpoint on any table;                      *)
(*   SpecView        the read-write view that is not workspace-scoped;     *)
(*   SpecPaginate    the paginated list;                                   *)
(*   SpecReopen      an update that closes followed by one that reopens;   *)
(*   SpecMigration   migration b31fa447f00c of the schema.                 *)
(***************************************************************************)
EXTENDS Integers, Sequences, FiniteSets, TLC

VARIABLES
    \* ---- severities histogram (Spec) ----
    vulns,      \* vulnerability id -> row of the vulnerability table, or NoVuln
    hist,       \* <<workspace_id, date>> -> row of severities_histogram, or NoRow
    today,      \* what date.today() returns
    next_id,    \* the next value of the vulnerability id sequence
    ops,        \* number of steps taken so far (bounds the exploration)
    last,       \* the last write: its kind, the row before and after, the histogram before
    \* ---- Host / Service hooks (SpecEvents, SpecCascade) ----
    objs,           \* <<class name, id>> -> row of the host / service table, or NoObj
    obj_seq,        \* class name -> next id of its table
    tags,           \* rows of TagObject
    comments,       \* rows of Comment
    files,          \* rows of File
    changes_queue,  \* the process-wide queue of change messages, oldest first
    clock,          \* index in Instants of the current time
    pc,             \* where delete_object_event stands: "idle" when no hook is running
    cur,            \* the message built by the running delete_object_event
    evops,          \* number of steps taken so far (bounds the exploration)
    evlast,         \* the last write of a Host or Service
    \* ---- workspace-scoped read-write view (SpecApi) ----
    lookup_field,   \* the view's lookup_field: "id" or "code"
    unique_fields,  \* the view's unique_fields, a sequence of field names
    rows,           \* id -> committed row of the view's model, or NoObj
    row_seq,        \* next id of the model's table
    api_pc,         \* "idle", or "created" between the two commits of a POST
    resp,           \* the last request and its response
    \* ---- concurrent request flows and transactions (SpecQueue, SpecHistogramTx) ----
    flow,           \* request flow -> how far it is in the life of its host
    sent,           \* the messages put on changes_queue so far, in the order of the puts
    received,       \* the messages taken from changes_queue, in order, each with its consumer
    htable,         \* row id -> row of severities_histogram of one (workspace, today)
    htx,            \* transaction -> where it is in _create_or_update_histogram
    \* ---- schema migration b31fa447f00c (SpecMigration) ----
    schema,         \* the objects of the database schema
    revision,       \* the revision the schema is at
    migrated        \* the last migration run: its operations, the schema before the upgrade

histVars == <<vulns, hist, today, next_id, ops, last>>
evVars == <<objs, obj_seq, tags, comments, files, changes_queue, clock, pc, cur,
            evops, evlast>>
apiVars == <<lookup_field, unique_fields, rows, row_seq, api_pc, resp>>
concVars == <<flow, sent, received, htable, htx>>
migVars == <<schema, revision, migrated>>

(***************************************************************************)
(* Bounds of the exploration.                                              *)
(***************************************************************************)
NumWorkspaces == 2
MaxOps == 2
MaxDay == 1
MaxObjs == 2
MaxEvOps == 3
MaxCascadeOps == 5
MaxRows == 2
MaxTxOps == 4
NumFlows == 2
NumConsumers == 2
MaxMessages == 3
NumTx == 2

\* At most MaxOps rows are ever inserted.
VulnIds == 1..MaxOps
Workspaces == 1..NumWorkspaces
Days == 0..MaxDay

(***************************************************************************)
(* Values of the vulnerability model used by the hooks.                    *)
(***************************************************************************)
NoneId == 0

STATUS_OPEN == "open"
STATUS_RE_OPENED == "re-opened"
STATUS_CLOSED == "closed"
STATUS_RISK_ACCEPTED == "risk-accepted"
SEVERITY_MEDIUM == "medium"
SEVERITY_HIGH == "high"
SEVERITY_CRITICAL == "critical"
SEVERITIES_ALLOWED == {SEVERITY_MEDIUM, SEVERITY_HIGH, SEVERITY_CRITICAL}

\* "low" stands for every severity outside SEVERITIES_ALLOWED.
Severities == SEVERITIES_ALLOWED \cup {"low"}
Statuses == {STATUS_OPEN, STATUS_RE_OPENED, STATUS_CLOSED, STATUS_RISK_ACCEPTED}
OpenStatuses == {STATUS_OPEN, STATUS_RE_OPENED}
ClosedStatuses == {STATUS_CLOSED, STATUS_RISK_ACCEPTED}

NoVuln == [absent |-> TRUE]
NoRow == [absent |-> TRUE]
ZeroRow == [medium |-> 0, high |-> 0, critical |-> 0, confirmed |-> 0]

VulnRows == [workspace_id : Workspaces, severity : Severities,
             status : Statuses, confirmed : BOOLEAN]

\* A histogram row read with a missing row counting as all zeros.
RowOrZero(h, ws, day) == IF h[<<ws, day>>] = NoRow THEN ZeroRow ELSE h[<<ws, day>>]

(***************************************************************************)
(* _create_or_update_histogram: insert the (workspace, today) row seeded   *)
(* with the deltas, or add the deltas to the existing row.                 *)
(***************************************************************************)
_create_or_update_histogram(h, day, workspace_id, medium, high, critical, confirmed) ==
    IF workspace_id = NoneId
    THEN h
    ELSE IF h[<<workspace_id, day>>] = NoRow
    THEN [h EXCEPT ![<<workspace_id, day>>] =
            [medium |-> medium, high |-> high, critical |-> critical,
             confirmed |-> confirmed]]
    ELSE [h EXCEPT ![<<workspace_id, day>>] =
            [medium |-> @.medium + medium, high |-> @.high + high,
             critical |-> @.critical + critical,
             confirmed |-> @.confirmed + confirmed]]

_dicrease_severities_histogram(instance_severity, medium, high, critical) ==
    [medium |-> IF instance_severity = SEVERITY_MEDIUM THEN -1 ELSE medium,
     high |-> IF instance_severity = SEVERITY_HIGH THEN -1 ELSE high,
     critical |-> IF instance_severity = SEVERITY_CRITICAL THEN -1 ELSE critical]

_increase_severities_histogram(instance_severity, medium, high, critical) ==
    [medium |-> IF instance_severity = SEVERITY_MEDIUM THEN 1 ELSE medium,
     high |-> IF instance_severity = SEVERITY_HIGH THEN 1 ELSE high,
     critical |-> IF instance_severity = SEVERITY_CRITICAL THEN 1 ELSE critical]

\* Variant: the insert hook forgets the confirmed flag of the new row.
alter_histogram_on_insert_unconfirmed(h, day, instance) ==
    IF instance.severity \in SEVERITIES_ALLOWED
    THEN LET s == _increase_severities_histogram(instance.severity, 0, 0, 0)
         IN _create_or_update_histogram(h, day, instance.workspace_id,
                                        s.medium, s.high, s.critical, 0)
    ELSE h

(***************************************************************************)
(* alter_histogram_on_insert (before_insert hook).                         *)
(***************************************************************************)
alter_histogram_on_insert(h, day, instance) ==
    IF instance.severity \in SEVERITIES_ALLOWED
    THEN LET s == _increase_severities_histogram(instance.severity, 0, 0, 0)
             confirmed == IF instance.confirmed THEN 1 ELSE 0
         IN _create_or_update_histogram(h, day, instance.workspace_id,
                                        s.medium, s.high, s.critical, confirmed)
    ELSE h

(***************************************************************************)
(* Attribute histories: added / unchanged / deleted, each a sequence of    *)
(* at most one value, as the ORM reports them for a scalar attribute.      *)
(***************************************************************************)
get_history(old, new) ==
    IF old = new
    THEN [added |-> <<>>, unchanged |-> <<old>>, deleted |-> <<>>]
    ELSE [added |-> <<new>>, unchanged |-> <<>>, deleted |-> <<old>>]

\* A history is false (in "not history") exactly when all three parts are empty.
HistoryIsBlank(hi) == hi.added = <<>> /\ hi.unchanged = <<>> /\ hi.deleted = <<>>

(***************************************************************************)
(* What a run of a hook asks of _create_or_update_histogram: one call with *)
(* deltas, no call (a return, logged or not), or an uncaught exception.    *)
(***************************************************************************)
Call(medium, high, critical, confirmed) ==
    [kind |-> "call", medium |-> medium, high |-> high, critical |-> critical,
     confirmed |-> confirmed]
NoCall == [kind |-> "return", medium |-> 0, high |-> 0, critical |-> 0, confirmed |-> 0]
Raised == [kind |-> "raise", medium |-> 0, high |-> 0, critical |-> 0, confirmed |-> 0]

\* Variant: the close delta is taken from the value of confirmed after the update.
confirmed_counters_after(confirmed_history) ==
    IF Len(confirmed_history.unchanged) > 0
    THEN [ok |-> TRUE, confirmed_counter |-> 0,
          on_close |-> IF confirmed_history.unchanged[1] = TRUE THEN -1 ELSE 0,
          on_reopen |-> IF confirmed_history.unchanged[1] = TRUE THEN 1 ELSE 0]
    ELSE IF confirmed_history.deleted = <<>> \/ confirmed_history.added = <<>>
    THEN [ok |-> FALSE, confirmed_counter |-> 0, on_close |-> 0, on_reopen |-> 0]
    ELSE IF confirmed_history.deleted[1] = TRUE
    THEN [ok |-> TRUE, confirmed_counter |-> -1, on_close |-> 0, on_reopen |-> 0]
    ELSE [ok |-> TRUE, confirmed_counter |-> 1, on_close |-> -1, on_reopen |-> 1]

\* events.py 175-190: the three confirmed deltas, or ok = FALSE for the logged return.
confirmed_counters(confirmed_history) ==
    IF Len(confirmed_history.unchanged) > 0
    THEN [ok |-> TRUE, confirmed_counter |-> 0,
          on_close |-> IF confirmed_history.unchanged[1] = TRUE THEN -1 ELSE 0,
          on_reopen |-> IF confirmed_history.unchanged[1] = TRUE THEN 1 ELSE 0]
    ELSE IF confirmed_history.deleted = <<>> \/ confirmed_history.added = <<>>
    THEN [ok |-> FALSE, confirmed_counter |-> 0, on_close |-> 0, on_reopen |-> 0]
    ELSE IF confirmed_history.deleted[1] = TRUE
    THEN [ok |-> TRUE, confirmed_counter |-> -1, on_close |-> -1, on_reopen |-> 0]
    ELSE [ok |-> TRUE, confirmed_counter |-> 1, on_close |-> 0, on_reopen |-> 1]

\* Variant: the confirmed delta is applied whatever the unchanged status is.
status_unchanged_case_any_status(cc, status_history, severity_history) ==
    IF cc.confirmed_counter # 0 THEN Call(0, 0, 0, cc.confirmed_counter) ELSE NoCall

\* events.py 192-217: status unchanged.
status_unchanged_case(cc, status_history, severity_history) ==
    LET confirmed_only ==
            IF cc.confirmed_counter # 0 /\ status_history.unchanged[1] \in OpenStatuses
            THEN Call(0, 0, 0, cc.confirmed_counter)
            ELSE NoCall
    IN IF Len(severity_history.unchanged) > 0
       THEN confirmed_only
       ELSE IF severity_history.deleted = <<>> \/ severity_history.added = <<>>
       THEN confirmed_only
       ELSE LET d == IF severity_history.deleted[1] \in SEVERITIES_ALLOWED
                     THEN _dicrease_severities_histogram(severity_history.deleted[1], 0, 0, 0)
                     ELSE [medium |-> 0, high |-> 0, critical |-> 0]
                i == IF severity_history.added[1] \in SEVERITIES_ALLOWED
                     THEN _increase_severities_histogram(severity_history.added[1],
                                                         d.medium, d.high, d.critical)
                     ELSE d
            IN Call(i.medium, i.high, i.critical, cc.confirmed_counter)

\* Variant: the close branch prefers the added (new) severity to the deleted one.
close_case_added(cc, severity_history) ==
    IF severity_history.unchanged = <<>> /\ severity_history.added = <<>>
    THEN Raised
    ELSE LET severity == IF Len(severity_history.added) > 0
                         THEN severity_history.added[1]
                         ELSE severity_history.unchanged[1]
         IN IF severity \in SEVERITIES_ALLOWED
            THEN LET d == _dicrease_severities_histogram(severity, 0, 0, 0)
                 IN Call(d.medium, d.high, d.critical, cc.on_close)
            ELSE NoCall

\* events.py 221-228: status went from open/re-opened to closed/risk-accepted.
close_case(cc, severity_history) ==
    IF severity_history.unchanged = <<>> /\ severity_history.deleted = <<>>
    THEN Raised   \* the local variable severity was never assigned
    ELSE LET severity == IF Len(severity_history.deleted) > 0
                         THEN severity_history.deleted[1]
                         ELSE severity_history.unchanged[1]
         IN IF severity \in SEVERITIES_ALLOWED
            THEN LET d == _dicrease_severities_histogram(severity, 0, 0, 0)
                 IN Call(d.medium, d.high, d.critical, cc.on_close)
            ELSE NoCall

\* Variant: the reopen branch leaves the confirmed counter alone.
reopen_case_unconfirmed(cc, severity_history) ==
    IF severity_history.unchanged = <<>> /\ severity_history.added = <<>>
    THEN Raised
    ELSE LET severity == IF Len(severity_history.added) > 0
                         THEN severity_history.added[1]
                         ELSE severity_history.unchanged[1]
         IN IF severity \in SEVERITIES_ALLOWED
            THEN LET d == _increase_severities_histogram(severity, 0, 0, 0)
                 IN Call(d.medium, d.high, d.critical, 0)
            ELSE NoCall

\* events.py 231-238: status went from closed/risk-accepted to open/re-opened.
reopen_case(cc, severity_history) ==
    IF severity_history.unchanged = <<>> /\ severity_history.added = <<>>
    THEN Raised
    ELSE LET severity == IF Len(severity_history.added) > 0
                         THEN severity_history.added[1]
                         ELSE severity_history.unchanged[1]
         IN IF severity \in SEVERITIES_ALLOWED
            THEN LET i == _increase_severities_histogram(severity, 0, 0, 0)
                 IN Call(i.medium, i.high, i.critical, cc.on_reopen)
            ELSE NoCall

\* events.py 239-240: any other change of status.
other_case(cc) ==
    IF cc.confirmed_counter # 0 THEN Call(0, 0, 0, cc.confirmed_counter) ELSE NoCall

\* events.py 168-240: the branch structure, in the order Python evaluates it.
update_general_outcome(status_history, confirmed_history, severity_history) ==
    IF HistoryIsBlank(status_history) \/ HistoryIsBlank(confirmed_history)
       \/ HistoryIsBlank(severity_history)
    THEN NoCall
    ELSE LET cc == confirmed_counters(confirmed_history)
         IN IF ~cc.ok THEN NoCall
            ELSE IF Len(status_history.unchanged) > 0
            THEN status_unchanged_case(cc, status_history, severity_history)
            ELSE IF status_history.added = <<>> THEN Raised   \* added[0]
            ELSE IF status_history.added[1] \in ClosedStatuses
            THEN IF status_history.deleted = <<>> THEN Raised   \* deleted[0]
                 ELSE IF status_history.deleted[1] \in OpenStatuses
                 THEN close_case(cc, severity_history)
                 ELSE other_case(cc)
            ELSE IF status_history.added[1] \in OpenStatuses
            THEN IF status_history.deleted = <<>> THEN Raised
                 ELSE IF status_history.deleted[1] \in ClosedStatuses
                 THEN reopen_case(cc, severity_history)
                 ELSE other_case(cc)
            ELSE other_case(cc)

apply_outcome(h, day, workspace_id, o) ==
    IF o.kind = "call"
    THEN _create_or_update_histogram(h, day, workspace_id,
                                     o.medium, o.high, o.critical, o.confirmed)
    ELSE h

alter_histogram_on_update_general(h, day, workspace_id, status_history, confirmed_history, severity_history) ==
    apply_outcome(h, day, workspace_id,
                  update_general_outcome(status_history, confirmed_history,
                                         severity_history))

\* before_update hook: the histories of the three attributes of the instance.
alter_histogram_on_update(h, day, old, new) ==
    alter_histogram_on_update_general(h, day, new.workspace_id,
                                      get_history(old.status, new.status),
                                      get_history(old.confirmed, new.confirmed),
                                      get_history(old.severity, new.severity))

\* after_delete hook.
alter_histogram_on_delete(h, day, instance) ==
    IF instance.status \in OpenStatuses
    THEN LET confirmed == IF instance.confirmed = TRUE THEN -1 ELSE 0
         IN IF instance.severity \in SEVERITIES_ALLOWED
            THEN LET d == _dicrease_severities_histogram(instance.severity, 0, 0, 0)
                 IN _create_or_update_histogram(h, day, instance.workspace_id,
                                                d.medium, d.high, d.critical, confirmed)
            ELSE h
    ELSE h

(***************************************************************************)
(* The histogram specification: single-row writes of vulnerabilities, each *)
(* with its hook, and the passing of days.                                 *)
(***************************************************************************)
EmptyHist == [k \in Workspaces \X Days |-> NoRow]

NoWrite == [op |-> "none", ws |-> NoneId, old |-> NoVuln, new |-> NoVuln,
            before |-> EmptyHist]

HistInit ==
    /\ vulns = [i \in VulnIds |-> NoVuln]
    /\ hist = EmptyHist
    /\ today = 0
    /\ next_id = 1
    /\ ops = 0
    /\ last = NoWrite

Written(op, ws, old, new) ==
    [op |-> op, ws |-> ws, old |-> old, new |-> new, before |-> hist]

\* The new row takes the next id of the sequence; ids are never reused.
InsertVuln(instance) ==
    /\ ops < MaxOps
    /\ next_id \in VulnIds
    /\ hist' = alter_histogram_on_insert(hist, today, instance)
    /\ vulns' = [vulns EXCEPT ![next_id] = instance]
    /\ next_id' = next_id + 1
    /\ last' = Written("insert", instance.workspace_id, NoVuln, instance)
    /\ ops' = ops + 1
    /\ UNCHANGED today
    /\ UNCHANGED <<evVars, apiVars, concVars, migVars>>

\* An update keeps the workspace of the row and sets status, severity and confirmed.
UpdateVuln(i, status, severity, confirmed) ==
    /\ ops < MaxOps
    /\ vulns[i] # NoVuln
    /\ LET old == vulns[i]
           new == [old EXCEPT !.status = status, !.severity = severity,
                              !.confirmed = confirmed]
       IN /\ hist' = alter_histogram_on_update(hist, today, old, new)
          /\ vulns' = [vulns EXCEPT ![i] = new]
          /\ last' = Written("update", old.workspace_id, old, new)
    /\ ops' = ops + 1
    /\ UNCHANGED <<today, next_id>>
    /\ UNCHANGED <<evVars, apiVars, concVars, migVars>>

DeleteVuln(i) ==
    /\ ops < MaxOps
    /\ vulns[i] # NoVuln
    /\ hist' = alter_histogram_on_delete(hist, today, vulns[i])
    /\ vulns' = [vulns EXCEPT ![i] = NoVuln]
    /\ last' = Written("delete", vulns[i].workspace_id, vulns[i], NoVuln)
    /\ ops' = ops + 1
    /\ UNCHANGED <<today, next_id>>
    /\ UNCHANGED <<evVars, apiVars, concVars, migVars>>

NextDay ==
    /\ ops < MaxOps
    /\ today < MaxDay
    /\ today' = today + 1
    /\ last' = NoWrite
    /\ ops' = ops + 1
    /\ UNCHANGED <<vulns, hist, next_id>>
    /\ UNCHANGED <<evVars, apiVars, concVars, migVars>>

HistNext ==
    \/ \E instance \in VulnRows : InsertVuln(instance)
    \/ \E i \in VulnIds, status \in Statuses, severity \in Severities,
          confirmed \in BOOLEAN : UpdateVuln(i, status, severity, confirmed)
    \/ \E i \in VulnIds : DeleteVuln(i)
    \/ NextDay

(***************************************************************************)
(* Query-level (bulk) deletes and updates of vulnerabilities: the          *)
(* before_compile_delete and before_compile_update hooks of Query.         *)
(* A query is what the hooks can see of it: the ids bound to its id        *)
(* filter ({} when it has none) and one other filter, on workspace_id      *)
(* (NoneId when it has none).                                              *)
(***************************************************************************)
BulkIdFilters == {{}} \cup {{i} : i \in VulnIds} \cup {VulnIds}
Queries == [ids : BulkIdFilters, workspace_id : {NoneId, 1}]

\* query.all(): the rows that pass every filter of the query.
query_all(table, q) ==
    {i \in VulnIds : /\ table[i] # NoVuln
                     /\ (q.ids # {} => i \in q.ids)
                     /\ (q.workspace_id # NoneId => table[i].workspace_id = q.workspace_id)}

\* update_context.values: a dict from the fields the update names to their
\* target values.
NoValues == <<>>
BulkValues ==
    <<[status |-> STATUS_CLOSED],
      [status |-> STATUS_OPEN],
      [confirmed |-> TRUE],
      [severity |-> SEVERITY_HIGH],
      [status |-> STATUS_CLOSED, severity |-> SEVERITY_HIGH, confirmed |-> FALSE]>>

\* The row an UPDATE with these values makes of a row.
with_values(row, context_values) ==
    [f \in DOMAIN row |->
        IF f \in DOMAIN context_values THEN context_values[f] ELSE row[f]]

get_history_from_context_values(context_values, field, old_value) ==
    IF field \in DOMAIN context_values /\ context_values[field] # old_value
    THEN [added |-> <<context_values[field]>>, unchanged |-> <<>>, deleted |-> <<old_value>>]
    ELSE [added |-> <<>>, unchanged |-> <<old_value>>, deleted |-> <<>>]

\* Variant: the bulk delete forgets the confirmed flag of the rows.
before_compile_delete_instance_unconfirmed(h, day, instance) ==
    IF instance.status \in OpenStatuses /\ instance.severity \in SEVERITIES_ALLOWED
    THEN LET d == _dicrease_severities_histogram(instance.severity, 0, 0, 0)
         IN _create_or_update_histogram(h, day, instance.workspace_id,
                                        d.medium, d.high, d.critical, 0)
    ELSE h

\* events.py 262-270: the body of the loop over the instances of a bulk delete.
before_compile_delete_instance(h, day, instance) ==
    IF instance.status \in OpenStatuses
    THEN IF instance.severity \in SEVERITIES_ALLOWED
         THEN LET d == _dicrease_severities_histogram(instance.severity, 0, 0, 0)
              IN _create_or_update_histogram(h, day, instance.workspace_id,
                                             d.medium, d.high, d.critical,
                                             IF instance.confirmed = TRUE THEN -1 ELSE 0)
         ELSE h
    ELSE h

\* events.py 298-307: the body of the loop over the instances of a bulk update.
before_compile_update_instance(h, day, instance, context_values) ==
    alter_histogram_on_update_general(
        h, day, instance.workspace_id,
        get_history_from_context_values(context_values, "status", instance.status),
        get_history_from_context_values(context_values, "confirmed", instance.confirmed),
        get_history_from_context_values(context_values, "severity", instance.severity))

Lowest(ids) == CHOOSE i \in ids : \A j \in ids : i <= j

RECURSIVE alter_histogram_on_before_compile_delete_loop(_, _, _, _)
alter_histogram_on_before_compile_delete_loop(h, day, table, instances) ==
    IF instances = {} THEN h
    ELSE LET i == Lowest(instances)
         IN alter_histogram_on_before_compile_delete_loop(
                before_compile_delete_instance(h, day, table[i]), day, table,
                instances \ {i})

alter_histogram_on_before_compile_delete(h, day, table, q) ==
    alter_histogram_on_before_compile_delete_loop(h, day, table, query_all(table, q))

RECURSIVE alter_histogram_on_before_compile_update_loop(_, _, _, _, _)
alter_histogram_on_before_compile_update_loop(h, day, table, instances, context_values) ==
    IF instances = {} THEN h
    ELSE LET i == Lowest(instances)
         IN alter_histogram_on_before_compile_update_loop(
                before_compile_update_instance(h, day, table[i], context_values),
                day, table, instances \ {i}, context_values)

\* events.py 288-295: with an id filter the instances are the rows of these ids,
\* whatever else the query filters on.
alter_histogram_on_before_compile_update(h, day, table, q, context_values) ==
    LET ids == q.ids
        instances == IF ids # {}
                     THEN {i \in VulnIds : table[i] # NoVuln /\ i \in ids}
                     ELSE query_all(table, q)
    IN alter_histogram_on_before_compile_update_loop(h, day, table, instances,
                                                     context_values)

BulkWritten(op, q, context_values) ==
    [op |-> op, ws |-> NoneId, old |-> NoVuln, new |-> NoVuln, before |-> hist,
     rows |-> vulns, query |-> q, values |-> context_values]

\* query.delete(): the hook, then the DELETE of the matching rows.
BulkDelete(q) ==
    /\ ops = 0
    /\ hist' = alter_histogram_on_before_compile_delete(hist, today, vulns, q)
    /\ vulns' = [i \in VulnIds |-> IF i \in query_all(vulns, q) THEN NoVuln ELSE vulns[i]]
    /\ last' = BulkWritten("bulk_delete", q, NoValues)
    /\ ops' = ops + 1
    /\ UNCHANGED <<today, next_id>>
    /\ UNCHANGED <<evVars, apiVars, concVars, migVars>>

\* query.update(values): the hook, then the UPDATE of the matching rows.
BulkUpdate(q, context_values) ==
    /\ ops = 0
    /\ hist' = alter_histogram_on_before_compile_update(hist, today, vulns, q,
                                                        context_values)
    /\ vulns' = [i \in VulnIds |-> IF i \in query_all(vulns, q)
                                   THEN with_values(vulns[i], context_values)
                                   ELSE vulns[i]]
    /\ last' = BulkWritten("bulk_update", q, context_values)
    /\ ops' = ops + 1
    /\ UNCHANGED <<today, next_id>>
    /\ UNCHANGED <<evVars, apiVars, concVars, migVars>>

\* session.delete of one row as the first statement on the table.
DeleteRow(i) == ops = 0 /\ DeleteVuln(i)

\* One statement, row-level or query-level, on a table of vulnerabilities.
BulkNext ==
    \/ \E i \in VulnIds : DeleteRow(i)
    \/ \E q \in Queries : BulkDelete(q)
    \/ \E q \in Queries, k \in DOMAIN BulkValues : BulkUpdate(q, BulkValues[k])

\* The rows the table of a bulk statement starts with.
BulkRows == [workspace_id : Workspaces, severity : {SEVERITY_MEDIUM, "low"},
             status : {STATUS_OPEN, STATUS_CLOSED}, confirmed : BOOLEAN]

(***************************************************************************)
(* alter_histogram_on_update_general on the histories the ORM can hand to  *)
(* it for a scalar attribute: blank (also standing for a history that was  *)
(* not passed), unchanged, changed, changed with the old value not loaded  *)
(* (no deleted side) and deleted (no added side).                          *)
(***************************************************************************)
AttributeHistories(values) ==
    {[added |-> <<>>, unchanged |-> <<>>, deleted |-> <<>>]}
    \cup {[added |-> <<>>, unchanged |-> <<v>>, deleted |-> <<>>] : v \in values}
    \cup {[added |-> <<n>>, unchanged |-> <<>>, deleted |-> <<o>>] :
             <<o, n>> \in {p \in values \X values : p[1] # p[2]}}
    \cup {[added |-> <<n>>, unchanged |-> <<>>, deleted |-> <<>>] : n \in values}
    \cup {[added |-> <<>>, unchanged |-> <<>>, deleted |-> <<o>>] : o \in values}

HistoriesGiven(ws, status_history, confirmed_history, severity_history) ==
    [op |-> "histories", ws |-> ws, old |-> NoVuln, new |-> NoVuln,
     before |-> EmptyHist, status_history |-> status_history,
     confirmed_history |-> confirmed_history, severity_history |-> severity_history,
     outcome |-> NoCall]

\* The hook runs on the histories of the write; an exception aborts the write
\* and leaves the histogram as it was.
UpdateGeneral ==
    /\ last.op = "histories"
    /\ LET o == update_general_outcome(last.status_history, last.confirmed_history,
                                       last.severity_history)
       IN /\ hist' = apply_outcome(hist, today, last.ws, o)
          /\ last' = [last EXCEPT !.op = "update_general", !.outcome = o]
    /\ ops' = ops + 1
    /\ UNCHANGED <<vulns, today, next_id>>
    /\ UNCHANGED <<evVars, apiVars, concVars, migVars>>

HistoriesNext == UpdateGeneral

(***************************************************************************)
(* Two updates of one vulnerability on one day, the first closing it, the  *)
(* second opening it again, each with its run of the update hook.          *)
(***************************************************************************)
CloseAndReopen(i, closed, reopened) ==
    /\ last.op = "none"
    /\ vulns[i] # NoVuln
    /\ vulns[i].status \in OpenStatuses
    /\ LET old == vulns[i]
           mid == [old EXCEPT !.status = closed]
           new == [old EXCEPT !.status = reopened]
           h == alter_histogram_on_update(hist, today, old, mid)
       IN /\ hist' = alter_histogram_on_update(h, today, mid, new)
          /\ vulns' = [vulns EXCEPT ![i] = new]
          /\ last' = Written("close, reopen", old.workspace_id, old, new)
    /\ ops' = ops + 1
    /\ UNCHANGED <<today, next_id>>
    /\ UNCHANGED <<evVars, apiVars, concVars, migVars>>

ReopenNext ==
    \E i \in VulnIds, closed \in ClosedStatuses, reopened \in OpenStatuses :
       CloseAndReopen(i, closed, reopened)

\* The rows of (workspace, today) the two updates can meet: none, or one with
\* counters from earlier writes of the day.
DayRows == {NoRow, ZeroRow, [medium |-> 2, high |-> 1, critical |-> 1, confirmed |-> 2]}

vars == <<histVars, evVars, apiVars, concVars, migVars>>

(***************************************************************************)
(* Host and Service: the workspace check, the change queue and the cascade *)
(* deletion of annotations.                                                *)
(***************************************************************************)
ObjTypes == {"Host", "Service"}
ObjIds == 1..MaxObjs
NoObj == [absent |-> TRUE]

\* update_object_event compares with 30; timedelta.seconds is the part of the
\* difference below one day.
SUPPRESS_SECONDS == 30
SECONDS_PER_DAY == 86400

\* The instants (in seconds) at which writes happen, in order.
Instants == <<0, SUPPRESS_SECONDS - 1, SUPPRESS_SECONDS, SECONDS_PER_DAY + 10>>
now == Instants[clock]

\* str.lower() on the class names that reach it.
lower(s) == CASE s = "Host" -> "host" [] s = "Service" -> "service" [] OTHER -> s

AnnotationTypes == {"host", "service"}
AnnotationRows == [object_id : ObjIds, object_type : AnnotationTypes]

\* instance.parent: the host of a service; a host has none.
parent_of(o, instance) ==
    IF instance.parent = NoneId THEN NoObj ELSE o[<<"Host", instance.parent>>]

\* Variant: the check is skipped.
check_skipped(o, instance) == FALSE

\* TRUE when after_insert_check_child_has_same_workspace raises AssertionError.
\* instance.workspace is the workspace row that workspace_id refers to, so the
\* two assertions compare the same ids.
after_insert_check_child_has_same_workspace(o, instance) ==
    IF parent_of(o, instance) # NoObj
    THEN \/ instance.workspace_id # parent_of(o, instance).workspace_id
         \/ instance.workspace_id # parent_of(o, instance).workspace_id
    ELSE FALSE

Msg(action, type, id, instance) ==
    [id |-> id, action |-> action, type |-> type, workspace |-> instance.workspace_id]

\* Variant: the queue is a LifoQueue, a put goes in front.
new_object_event_lifo(q, type, id, instance) == <<Msg("CREATE", type, id, instance)>> \o q

\* Variant: the message is held back until the transaction commits.
new_object_event_on_commit(q, type, id, instance) == q

\* new_object_event: the queue after the hook.
new_object_event(q, type, id, instance) == Append(q, Msg("CREATE", type, id, instance))

\* timedelta(...).seconds of update_date - create_date.
delta_seconds(instance) == (instance.update_date - instance.create_date) % SECONDS_PER_DAY

\* update_object_event: the queue after the hook.
update_object_event(q, type, id, instance) ==
    IF delta_seconds(instance) < SUPPRESS_SECONDS
    THEN q
    ELSE Append(q, Msg("UPDATE", type, id, instance))

\* Variant: the annotations are matched by object_id alone.
matching_rows_by_id(table, msg) == {r \in table : r.object_id = msg.id}

\* query(T).filter_by(object_id=instance.id, object_type=msg['type'].lower())
matching_rows(table, msg) ==
    {r \in table : r.object_id = msg.id /\ r.object_type = lower(msg.type)}

\* The last write: what was written, whether a hook raised, and the state before.
NoEvent == [op |-> "none", type |-> "Host", id |-> NoneId, fault |-> FALSE,
            row |-> NoObj, objs |-> <<>>, queue |-> <<>>, tags |-> {},
            comments |-> {}, files |-> {}]

Event(op, type, id, fault, row) ==
    [op |-> op, type |-> type, id |-> id, fault |-> fault, row |-> row,
     objs |-> objs, queue |-> changes_queue, tags |-> tags, comments |-> comments,
     files |-> files]

EvInit ==
    /\ objs = [k \in ObjTypes \X ObjIds |-> NoObj]
    /\ obj_seq = [t \in ObjTypes |-> 1]
    /\ tags = {}
    /\ comments = {}
    /\ files = {}
    /\ changes_queue = <<>>
    /\ clock = 1
    /\ pc = "idle"
    /\ cur = NoObj
    /\ evops = 0
    /\ evlast = NoEvent

\* A host has no parent; the parent of a service is an existing host.
ParentsFor(type) ==
    IF type = "Host" THEN {NoneId}
    ELSE {h \in ObjIds : objs[<<"Host", h>>] # NoObj}

\* session.add + flush of a new Host or Service. The listeners run in the order
\* of their registration: the workspace check, then new_object_event. A raising
\* check aborts the flush and the transaction is rolled back.
InsertObj(type, ws, parent, bound) ==
    /\ pc = "idle"
    /\ evops < bound
    /\ obj_seq[type] \in ObjIds
    /\ parent \in ParentsFor(type)
    /\ LET id == obj_seq[type]
           instance == [workspace_id |-> ws, parent |-> parent,
                        create_date |-> now, update_date |-> now]
       IN IF after_insert_check_child_has_same_workspace(objs, instance)
          THEN /\ evlast' = Event("insert", type, id, TRUE, instance)
               /\ UNCHANGED <<objs, obj_seq, changes_queue>>
          ELSE /\ objs' = [objs EXCEPT ![<<type, id>>] = instance]
               /\ obj_seq' = [obj_seq EXCEPT ![type] = id + 1]
               /\ changes_queue' = new_object_event(changes_queue, type, id, instance)
               /\ evlast' = Event("insert", type, id, FALSE, instance)
    /\ evops' = evops + 1
    /\ UNCHANGED <<tags, comments, files, clock, pc, cur>>
    /\ UNCHANGED <<histVars, apiVars, concVars, migVars>>

\* An update of a Host or Service (its workspace, its parent), stamped with the
\* current time; the workspace check runs, then update_object_event.
UpdateObj(type, id, ws, parent, bound) ==
    /\ pc = "idle"
    /\ evops < bound
    /\ objs[<<type, id>>] # NoObj
    /\ parent \in ParentsFor(type)
    /\ LET instance == [objs[<<type, id>>] EXCEPT !.workspace_id = ws,
                                                  !.parent = parent,
                                                  !.update_date = now]
       IN IF after_insert_check_child_has_same_workspace(objs, instance)
          THEN /\ evlast' = Event("update", type, id, TRUE, instance)
               /\ UNCHANGED <<objs, changes_queue>>
          ELSE /\ objs' = [objs EXCEPT ![<<type, id>>] = instance]
               /\ changes_queue' = update_object_event(changes_queue, type, id, instance)
               /\ evlast' = Event("update", type, id, FALSE, instance)
    /\ evops' = evops + 1
    /\ UNCHANGED <<obj_seq, tags, comments, files, clock, pc, cur>>
    /\ UNCHANGED <<histVars, apiVars, concVars, migVars>>

\* session.delete + flush: the row is deleted, then delete_object_event starts
\* and builds its message. A host that services refer to is not deleted.
DeleteObj(type, id, bound) ==
    /\ pc = "idle"
    /\ evops < bound
    /\ objs[<<type, id>>] # NoObj
    /\ type = "Host" => \A i \in ObjIds :
            objs[<<"Service", i>>] # NoObj => objs[<<"Service", i>>].parent # id
    /\ objs' = [objs EXCEPT ![<<type, id>>] = NoObj]
    /\ cur' = Msg("DELETE", type, id, objs[<<type, id>>])
    /\ evlast' = Event("delete", type, id, FALSE, objs[<<type, id>>])
    /\ pc' = "tags"
    /\ evops' = evops + 1
    /\ UNCHANGED <<obj_seq, tags, comments, files, changes_queue, clock>>
    /\ UNCHANGED <<histVars, apiVars, concVars, migVars>>

\* delete_object_event, statement by statement.
DeleteTags ==
    /\ pc = "tags"
    /\ tags' = tags \ matching_rows(tags, cur)
    /\ pc' = "comments"
    /\ UNCHANGED <<objs, obj_seq, comments, files, changes_queue, clock, cur, evops, evlast>>
    /\ UNCHANGED <<histVars, apiVars, concVars, migVars>>

DeleteComments ==
    /\ pc = "comments"
    /\ comments' = comments \ matching_rows(comments, cur)
    /\ pc' = "files"
    /\ UNCHANGED <<objs, obj_seq, tags, files, changes_queue, clock, cur, evops, evlast>>
    /\ UNCHANGED <<histVars, apiVars, concVars, migVars>>

DeleteFiles ==
    /\ pc = "files"
    /\ files' = files \ matching_rows(files, cur)
    /\ pc' = "put"
    /\ UNCHANGED <<objs, obj_seq, tags, comments, changes_queue, clock, cur, evops, evlast>>
    /\ UNCHANGED <<histVars, apiVars, concVars, migVars>>

PutDeleteMsg ==
    /\ pc = "put"
    /\ changes_queue' = Append(changes_queue, cur)
    /\ pc' = "idle"
    /\ cur' = NoObj
    /\ UNCHANGED <<objs, obj_seq, tags, comments, files, clock, evops, evlast>>
    /\ UNCHANGED <<histVars, apiVars, concVars, migVars>>

\* Time passes between two requests.
Tick ==
    /\ pc = "idle"
    /\ clock < Len(Instants)
    /\ clock' = clock + 1
    /\ UNCHANGED <<objs, obj_seq, tags, comments, files, changes_queue, pc, cur,
                   evops, evlast>>
    /\ UNCHANGED <<histVars, apiVars, concVars, migVars>>

\* Another part of the application attaches a tag, a comment or a file to an
\* object, named by id and lower-cased type.
Annotate(table, row, bound) ==
    /\ pc = "idle"
    /\ evops < bound
    /\ \/ table = "tag" /\ row \notin tags /\ tags' = tags \cup {row}
          /\ UNCHANGED <<comments, files>>
       \/ table = "comment" /\ row \notin comments /\ comments' = comments \cup {row}
          /\ UNCHANGED <<tags, files>>
       \/ table = "file" /\ row \notin files /\ files' = files \cup {row}
          /\ UNCHANGED <<tags, comments>>
    /\ evlast' = Event("annotate", "Host", NoneId, FALSE, NoObj)
    /\ evops' = evops + 1
    /\ UNCHANGED <<objs, obj_seq, changes_queue, clock, pc, cur>>
    /\ UNCHANGED <<histVars, apiVars, concVars, migVars>>

\* The transaction of the last insert, update or delete is rolled back after its
\* hooks ran: the database gives back the rows the transaction started from
\* (sequences are not rolled back); changes_queue is an object of the process
\* and no code retracts a message from it.
Rollback(bound) ==
    /\ pc = "idle"
    /\ evops < bound
    /\ evlast.op \in {"insert", "update", "delete"}
    /\ ~evlast.fault
    /\ objs' = evlast.objs
    /\ tags' = evlast.tags
    /\ comments' = evlast.comments
    /\ files' = evlast.files
    /\ evlast' = [op |-> "rollback", type |-> evlast.type, id |-> evlast.id,
                  fault |-> FALSE, row |-> evlast.row, objs |-> evlast.objs,
                  queue |-> evlast.queue, tags |-> evlast.tags,
                  comments |-> evlast.comments, files |-> evlast.files,
                  undone |-> evlast.op, enqueued |-> changes_queue,
                  uncommitted |-> [objs |-> objs, tags |-> tags,
                                   comments |-> comments, files |-> files]]
    /\ evops' = evops + 1
    /\ UNCHANGED <<obj_seq, changes_queue, clock, pc, cur>>
    /\ UNCHANGED <<histVars, apiVars, concVars, migVars>>

EvNext ==
    \/ \E type \in ObjTypes, ws \in Workspaces, parent \in ObjIds \cup {NoneId} :
          InsertObj(type, ws, parent, MaxEvOps)
    \/ \E type \in ObjTypes, id \in ObjIds, ws \in Workspaces,
          parent \in ObjIds \cup {NoneId} : UpdateObj(type, id, ws, parent, MaxEvOps)
    \/ \E type \in ObjTypes, id \in ObjIds : DeleteObj(type, id, MaxEvOps)
    \/ DeleteTags
    \/ DeleteComments
    \/ DeleteFiles
    \/ PutDeleteMsg
    \/ Tick

\* The cascade scenario: objects of one workspace, annotations, deletions.
CascadeNext ==
    \/ \E type \in ObjTypes, parent \in ObjIds \cup {NoneId} :
          InsertObj(type, 1, parent, MaxCascadeOps)
    \/ \E table \in {"tag", "comment", "file"}, row \in AnnotationRows :
          Annotate(table, row, MaxCascadeOps)
    \/ \E type \in ObjTypes, id \in ObjIds : DeleteObj(type, id, MaxCascadeOps)
    \/ DeleteTags
    \/ DeleteComments
    \/ DeleteFiles
    \/ PutDeleteMsg

\* Writes of one workspace, each in its own transaction, which may roll back.
TxNext ==
    \/ \E type \in ObjTypes, parent \in ObjIds \cup {NoneId} :
          InsertObj(type, 1, parent, MaxTxOps)
    \/ \E type \in ObjTypes, id \in ObjIds, parent \in ObjIds \cup {NoneId} :
          UpdateObj(type, id, 1, parent, MaxTxOps)
    \/ \E table \in {"tag", "comment", "file"}, row \in AnnotationRows :
          Annotate(table, row, MaxTxOps)
    \/ \E type \in ObjTypes, id \in ObjIds : DeleteObj(type, id, MaxTxOps)
    \/ DeleteTags
    \/ DeleteComments
    \/ DeleteFiles
    \/ PutDeleteMsg
    \/ Tick
    \/ Rollback(MaxTxOps)

(***************************************************************************)
(* Concurrent request flows. Each flow creates a host, updates it and      *)
(* deletes it, its hooks putting their messages on the one changes_queue;  *)
(* consumers take messages from the queue. A put and a get of a Queue are  *)
(* atomic; the hooks of different flows interleave between them.           *)
(***************************************************************************)
Flows == 1..NumFlows
Consumers == 1..NumConsumers

\* The host of flow f, created at time 0 and updated SUPPRESS_SECONDS later.
FlowHost(f, update_date) ==
    [workspace_id |-> 1, parent |-> NoneId, create_date |-> 0,
     update_date |-> update_date]

Started == Cardinality({f \in Flows : flow[f].n > 0})
         + Cardinality({f \in Flows : flow[f].n > 1})
         + Cardinality({f \in Flows : flow[f].n > 2 \/ flow[f].pc = "put"})

\* after_insert of the host of flow f.
FlowInsert(f) ==
    /\ flow[f].n = 0
    /\ Started < MaxMessages
    /\ changes_queue' = new_object_event(changes_queue, "Host", f, FlowHost(f, 0))
    /\ sent' = Append(sent, Msg("CREATE", "Host", f, FlowHost(f, 0)))
    /\ flow' = [flow EXCEPT ![f].n = 1]
    /\ UNCHANGED <<received, htable, htx>>
    /\ UNCHANGED <<objs, obj_seq, tags, comments, files, clock, pc, cur, evops, evlast>>
    /\ UNCHANGED <<histVars, apiVars, migVars>>

\* after_update of the host of flow f.
FlowUpdate(f) ==
    /\ flow[f].n = 1
    /\ Started < MaxMessages
    /\ changes_queue' = update_object_event(changes_queue, "Host", f,
                                            FlowHost(f, SUPPRESS_SECONDS))
    /\ sent' = Append(sent, Msg("UPDATE", "Host", f, FlowHost(f, SUPPRESS_SECONDS)))
    /\ flow' = [flow EXCEPT ![f].n = 2]
    /\ UNCHANGED <<received, htable, htx>>
    /\ UNCHANGED <<objs, obj_seq, tags, comments, files, clock, pc, cur, evops, evlast>>
    /\ UNCHANGED <<histVars, apiVars, migVars>>

\* after_delete of the host of flow f: the message is built and the three
\* deletes of annotations run; the put comes as a later step.
FlowDelete(f) ==
    /\ flow[f].n = 2
    /\ flow[f].pc = "idle"
    /\ Started < MaxMessages
    /\ flow' = [flow EXCEPT ![f].pc = "put"]
    /\ UNCHANGED <<sent, received, htable, htx>>
    /\ UNCHANGED evVars
    /\ UNCHANGED <<histVars, apiVars, migVars>>

FlowPut(f) ==
    /\ flow[f].pc = "put"
    /\ LET msg == Msg("DELETE", "Host", f, FlowHost(f, SUPPRESS_SECONDS))
       IN /\ changes_queue' = Append(changes_queue, msg)
          /\ sent' = Append(sent, msg)
    /\ flow' = [flow EXCEPT ![f].pc = "idle", ![f].n = 3]
    /\ UNCHANGED <<received, htable, htx>>
    /\ UNCHANGED <<objs, obj_seq, tags, comments, files, clock, pc, cur, evops, evlast>>
    /\ UNCHANGED <<histVars, apiVars, migVars>>

\* A consumer takes the oldest message: changes_queue.get().
Consume(c) ==
    /\ changes_queue # <<>>
    /\ received' = Append(received, [consumer |-> c, msg |-> Head(changes_queue)])
    /\ changes_queue' = Tail(changes_queue)
    /\ UNCHANGED <<flow, sent, htable, htx>>
    /\ UNCHANGED <<objs, obj_seq, tags, comments, files, clock, pc, cur, evops, evlast>>
    /\ UNCHANGED <<histVars, apiVars, migVars>>

QueueNext ==
    \/ \E f \in Flows : FlowInsert(f)
    \/ \E f \in Flows : FlowUpdate(f)
    \/ \E f \in Flows : FlowDelete(f)
    \/ \E f \in Flows : FlowPut(f)
    \/ \E c \in Consumers : Consume(c)

(***************************************************************************)
(* Concurrent transactions, each inserting one vulnerability of a tracked  *)
(* severity into the same workspace on the same day, so each running       *)
(* _create_or_update_histogram once. The database is at READ COMMITTED: a  *)
(* SELECT sees the committed rows and the transaction's own; an UPDATE of  *)
(* a row waits for the transaction that holds the row and then adds to the *)
(* value that transaction committed.                                       *)
(***************************************************************************)
Txs == 1..NumTx
HRowIds == 1..(NumTx + 1)

NoTx == 0
HRow(medium, high, critical, confirmed, owner, committed) ==
    [medium |-> medium, high |-> high, critical |-> critical, confirmed |-> confirmed,
     owner |-> owner, committed |-> committed, lock |-> NoTx]

\* SeveritiesHistogram.query...filter(date, workspace_id): the rows a SELECT of t sees.
VisibleTo(t) ==
    {i \in HRowIds : htable[i] # NoRow /\ (htable[i].committed \/ htable[i].owner = t)}

\* The transaction starts with a vulnerability to insert.
TxBegin(t, severity, confirmed) ==
    /\ htx[t].pc = "begin"
    /\ htx' = [htx EXCEPT ![t] = [pc |-> "select", ws_id |-> NoneId,
                                  severity |-> severity, confirmed |-> confirmed]]
    /\ UNCHANGED <<flow, sent, received, htable>>
    /\ UNCHANGED <<histVars, evVars, apiVars, migVars>>

\* events.py 113-115: .first() of the matching rows; which one when there are
\* several is up to the database.
TxSelect(t) ==
    /\ htx[t].pc = "select"
    /\ \E ws_id \in (IF VisibleTo(t) = {} THEN {NoneId} ELSE VisibleTo(t)) :
          htx' = [htx EXCEPT ![t].pc = "write", ![t].ws_id = ws_id]
    /\ UNCHANGED <<flow, sent, received, htable>>
    /\ UNCHANGED <<histVars, evVars, apiVars, migVars>>

\* events.py 116-120: no row was found, INSERT one with the deltas.
TxInsert(t) ==
    /\ htx[t].pc = "write"
    /\ htx[t].ws_id = NoneId
    /\ LET id == CHOOSE i \in HRowIds :
                    htable[i] = NoRow /\ \A j \in HRowIds : htable[j] = NoRow => i <= j
           d == _increase_severities_histogram(htx[t].severity, 0, 0, 0)
       IN htable' = [htable EXCEPT ![id] =
                        HRow(d.medium, d.high, d.critical, (IF htx[t].confirmed THEN 1 ELSE 0), t, FALSE)]
    /\ htx' = [htx EXCEPT ![t].pc = "commit"]
    /\ UNCHANGED <<flow, sent, received>>
    /\ UNCHANGED <<histVars, evVars, apiVars, migVars>>

\* events.py 121-128: UPDATE ... SET medium = medium + delta ... WHERE id = ws_id.
TxUpdate(t) ==
    /\ htx[t].pc = "write"
    /\ htx[t].ws_id # NoneId
    /\ htable[htx[t].ws_id].lock \in {NoTx, t}
    /\ LET d == _increase_severities_histogram(htx[t].severity, 0, 0, 0)
       IN htable' = [htable EXCEPT ![htx[t].ws_id] =
                        [@ EXCEPT !.medium = @ + d.medium, !.high = @ + d.high,
                                  !.critical = @ + d.critical,
                                  !.confirmed = @ + (IF htx[t].confirmed THEN 1 ELSE 0),
                                  !.lock = t]]
    /\ htx' = [htx EXCEPT ![t].pc = "commit"]
    /\ UNCHANGED <<flow, sent, received>>
    /\ UNCHANGED <<histVars, evVars, apiVars, migVars>>

\* COMMIT: the rows of t become visible and the rows it holds are released.
TxCommit(t) ==
    /\ htx[t].pc = "commit"
    /\ htable' = [i \in HRowIds |->
                    IF htable[i] = NoRow THEN NoRow
                    ELSE [htable[i] EXCEPT
                             !.committed = @ \/ htable[i].owner = t,
                             !.lock = IF @ = t THEN NoTx ELSE @]]
    /\ htx' = [htx EXCEPT ![t].pc = "done"]
    /\ UNCHANGED <<flow, sent, received>>
    /\ UNCHANGED <<histVars, evVars, apiVars, migVars>>

HistogramTxNext ==
    \/ \E t \in Txs, severity \in SEVERITIES_ALLOWED, confirmed \in BOOLEAN :
          TxBegin(t, severity, confirmed)
    \/ \E t \in Txs : TxSelect(t)
    \/ \E t \in Txs : TxInsert(t)
    \/ \E t \in Txs : TxUpdate(t)
    \/ \E t \in Txs : TxCommit(t)

IdleTx == [pc |-> "begin", ws_id |-> NoneId, severity |-> SEVERITY_MEDIUM,
           confirmed |-> FALSE]

\* No flow has started, the queue logs are empty, no histogram row, no transaction.
ConcInit ==
    /\ flow = [f \in Flows |-> [n |-> 0, pc |-> "idle"]]
    /\ sent = <<>>
    /\ received = <<>>
    /\ htable = [i \in HRowIds |-> NoRow]
    /\ htx = [t \in Txs |-> IdleTx]

(***************************************************************************)
(* The workspace-scoped read-write view (ReadWriteWorkspacedView) over a   *)
(* model with the columns id, workspace_id, code and creator. code is the  *)
(* field a view may declare unique, and may use as its lookup field.       *)
(***************************************************************************)
WorkspaceTable == {[id |-> 1, name |-> "alpha"], [id |-> 2, name |-> "beta"]}
UrlWorkspaceNames == {"alpha", "beta", "gamma"}

RowIds == 1..MaxRows
\* The values the code column takes.
Codes == {1, 2}
NoUser == "none"
CurrentUser == "user"

\* The id part of a URL is text: a sequence of characters.
DigitChars == <<"0", "1", "2", "3", "4", "5", "6", "7", "8", "9">>
IsDigit(c) == \E d \in 1..Len(DigitChars) : DigitChars[d] = c
DigitValue(c) == (CHOOSE d \in 1..Len(DigitChars) : DigitChars[d] = c) - 1
str(n) == <<DigitChars[n + 1]>>
UrlIds == {str(n) : n \in RowIds} \cup {<<"x">>}

\* The digits of a number text: what follows its minus sign, if it has one.
Digits(text) == IF text # <<>> /\ Head(text) = "-" THEN Tail(text) ELSE text

\* int(text): TRUE when it raises ValueError.
int_raises(text) ==
    Digits(text) = <<>> \/ \E k \in 1..Len(Digits(text)) : ~IsDigit(Digits(text)[k])

RECURSIVE int_digits(_)
int_digits(text) ==
    IF text = <<>> THEN 0
    ELSE 10 * int_digits(SubSeq(text, 1, Len(text) - 1)) + DigitValue(text[Len(text)])

int(text) ==
    IF text # <<>> /\ Head(text) = "-" THEN 0 - int_digits(Tail(text))
    ELSE int_digits(text)

\* The request body after schema validation, or InvalidData when it fails.
InvalidData == [invalid |-> TRUE]
Bodies == {[code |-> c] : c \in Codes} \cup {InvalidData}

\* inspect(model_class).attrs: the columns and the relationship.
ModelColumns == {"id", "workspace_id", "code"}
ModelAttrs == ModelColumns \cup {"workspace"}
GroupByArgs == {"", "code", "workspace", "bogus"}

\* Outcomes of a helper: a value, or an abort / exception with its status.
Ok(v) == [status |-> 0, value |-> v]
Abort(status) == [status |-> status, value |-> 0]

\* _get_workspace: .one() on the workspaces of that name (names are unique).
_get_workspace(workspace_name) ==
    IF \E w \in WorkspaceTable : w.name = workspace_name
    THEN Ok((CHOOSE w \in WorkspaceTable : w.name = workspace_name).id)
    ELSE Abort(404)

\* GenericWorkspacedView._get_base_query: the ids of the rows joined with the workspace.
_get_base_query(r, workspace_name) ==
    LET ws == _get_workspace(workspace_name)
    IN IF ws.status # 0 THEN Abort(ws.status)
       ELSE Ok({i \in RowIds : r[i] # NoObj /\ r[i].workspace_id = ws.value})

\* The value of a column of the row with id i.
Column(r, i, field) == IF field = "id" THEN i ELSE r[i][field]

\* Variant: .first() instead of .one(), which picks a row when several match.
_get_object_first(r, lookup, object_id, workspace_name) ==
    IF int_raises(object_id) THEN Abort(404)
    ELSE LET base == _get_base_query(r, workspace_name)
         IN IF base.status # 0 THEN Abort(base.status)
            ELSE LET found == {i \in base.value : Column(r, i, lookup) = int(object_id)}
                 IN IF found = {} THEN Abort(404)
                    ELSE Ok(CHOOSE i \in found : TRUE)

\* GenericWorkspacedView._get_object: .one() raises NoResultFound (caught: 404)
\* for no row and MultipleResultsFound (not caught: 500) for several.
_get_object(r, lookup, object_id, workspace_name) ==
    IF int_raises(object_id) THEN Abort(404)
    ELSE LET base == _get_base_query(r, workspace_name)
         IN IF base.status # 0 THEN Abort(base.status)
            ELSE LET found == {i \in base.value : Column(r, i, lookup) = int(object_id)}
                 IN IF found = {} THEN Abort(404)
                    ELSE IF Cardinality(found) > 1 THEN Abort(500)
                    ELSE Ok(CHOOSE i \in found : TRUE)

\* Variant: no handler is installed and the 422 reaches the client.
unprocessable_entity_unhandled(status) == status

\* handle_unprocessable_entity, installed by register: a 422 is answered with 400.
handle_unprocessable_entity(status) == IF status = 422 THEN 400 ELSE status

\* GenericWorkspacedView._validate_uniqueness for the fields of a sequence:
\* status 0 when no field conflicts, 422 for the first field with one other
\* row of the same value, 500 when one_or_none() finds several.
RECURSIVE _validate_uniqueness(_, _, _, _, _)
_validate_uniqueness(r, fields, workspace_name, obj, object_id) ==
    IF fields = <<>> THEN [status |-> 0, field |-> "", value |-> 0]
    ELSE LET field_name == Head(fields)
             value == obj[field_name]
             base == _get_base_query(r, workspace_name).value
             query == {i \in base :
                         /\ Column(r, i, field_name) = value
                         /\ object_id # <<>> => i # int(object_id)}
         IN IF Cardinality(query) > 1
            THEN [status |-> 500, field |-> field_name, value |-> value]
            ELSE IF query # {}
            THEN [status |-> 422, field |-> field_name, value |-> value]
            ELSE _validate_uniqueness(r, Tail(fields), workspace_name, obj, object_id)

NoRequest == [kind |-> "none", workspace_name |-> "", object_id |-> <<>>,
              body |-> InvalidData, group_by |-> "", status |-> 0, ids |-> {},
              field |-> "", value |-> 0, groups |-> {}, total_count |-> 0,
              before |-> <<>>]

Response(kind, workspace_name, object_id, body, status, ids, field, value) ==
    [kind |-> kind, workspace_name |-> workspace_name, object_id |-> object_id,
     body |-> body, group_by |-> "", status |-> status, ids |-> ids,
     field |-> field, value |-> value, groups |-> {}, total_count |-> 0,
     before |-> rows]

ApiInit ==
    /\ lookup_field \in {"id", "code"}
    /\ unique_fields \in {<<>>, <<"code">>}
    /\ rows = [i \in RowIds |-> NoObj]
    /\ row_seq = 1
    /\ api_pc = "idle"
    /\ resp = NoRequest

\* ListMixin.index: GET <prefix>/
Index(workspace_name) ==
    /\ api_pc = "idle"
    /\ LET base == _get_base_query(rows, workspace_name)
       IN resp' = IF base.status # 0
                  THEN Response("index", workspace_name, <<>>, InvalidData,
                                base.status, {}, "", 0)
                  ELSE Response("index", workspace_name, <<>>, InvalidData,
                                200, base.value, "", 0)
    /\ UNCHANGED <<lookup_field, unique_fields, rows, row_seq, api_pc>>
    /\ UNCHANGED <<histVars, evVars, concVars, migVars>>

\* RetrieveMixin.get: GET <prefix>/<id>/
Get(workspace_name, object_id) ==
    /\ api_pc = "idle"
    /\ LET obj == _get_object(rows, lookup_field, object_id, workspace_name)
       IN resp' = IF obj.status # 0
                  THEN Response("get", workspace_name, object_id, InvalidData,
                                obj.status, {}, "", 0)
                  ELSE Response("get", workspace_name, object_id, InvalidData,
                                200, {obj.value}, "", 0)
    /\ UNCHANGED <<lookup_field, unique_fields, rows, row_seq, api_pc>>
    /\ UNCHANGED <<histVars, evVars, concVars, migVars>>

\* CreateMixin.post up to the commit inside CreateWorkspacedMixin._perform_create.
Post(workspace_name, body) ==
    /\ api_pc = "idle"
    /\ row_seq \in RowIds
    /\ LET ws == _get_workspace(workspace_name)
           obj == [workspace_id |-> ws.value, code |-> body.code, creator |-> NoUser]
           unique == _validate_uniqueness(rows, unique_fields, workspace_name, obj, <<>>)
       IN IF body = InvalidData
          THEN /\ resp' = Response("post", workspace_name, <<>>, body, 400, {}, "", 0)
               /\ UNCHANGED <<rows, row_seq, api_pc>>
          ELSE IF ws.status # 0
          THEN /\ resp' = Response("post", workspace_name, <<>>, body, ws.status, {}, "", 0)
               /\ UNCHANGED <<rows, row_seq, api_pc>>
          ELSE IF unique.status # 0
          THEN /\ resp' = Response("post", workspace_name, <<>>, body,
                                   handle_unprocessable_entity(unique.status), {},
                                   unique.field, unique.value)
               /\ UNCHANGED <<rows, row_seq, api_pc>>
          ELSE /\ rows' = [rows EXCEPT ![row_seq] = obj]
               /\ row_seq' = row_seq + 1
               /\ api_pc' = "created"
               /\ resp' = Response("post", workspace_name, <<>>, body, 0, {row_seq}, "", 0)
    /\ UNCHANGED <<lookup_field, unique_fields>>
    /\ UNCHANGED <<histVars, evVars, concVars, migVars>>

\* CreateMixin.post after _perform_create: creator, second commit, 201.
PostAttribute ==
    /\ api_pc = "created"
    /\ LET id == CHOOSE i \in resp.ids : TRUE
       IN rows' = [rows EXCEPT ![id].creator = CurrentUser]
    /\ resp' = [resp EXCEPT !.status = 201]
    /\ api_pc' = "idle"
    /\ UNCHANGED <<lookup_field, unique_fields, row_seq>>
    /\ UNCHANGED <<histVars, evVars, concVars, migVars>>

\* UpdateMixin.put with UpdateWorkspacedMixin._perform_update: PUT <prefix>/<id>/
Put(workspace_name, object_id, body) ==
    /\ api_pc = "idle"
    /\ LET found == _get_object(rows, lookup_field, object_id, workspace_name)
           ws == _get_workspace(workspace_name)
           obj == [rows[found.value] EXCEPT !.code = body.code,
                                            !.workspace_id = ws.value]
           unique == _validate_uniqueness(rows, unique_fields, workspace_name, obj,
                                          object_id)
       IN IF body = InvalidData
          THEN /\ resp' = Response("put", workspace_name, object_id, body, 400, {}, "", 0)
               /\ UNCHANGED rows
          ELSE IF found.status # 0
          THEN /\ resp' = Response("put", workspace_name, object_id, body,
                                   found.status, {}, "", 0)
               /\ UNCHANGED rows
          ELSE IF unique.status # 0
          THEN /\ resp' = Response("put", workspace_name, object_id, body,
                                   handle_unprocessable_entity(unique.status),
                                   {found.value}, unique.field, unique.value)
               /\ UNCHANGED rows
          ELSE /\ rows' = [rows EXCEPT ![found.value] = obj]
               /\ resp' = Response("put", workspace_name, object_id, body, 200,
                                   {found.value}, "", 0)
    /\ UNCHANGED <<lookup_field, unique_fields, row_seq, api_pc>>
    /\ UNCHANGED <<histVars, evVars, concVars, migVars>>

\* DeleteMixin.delete: DELETE <prefix>/<id>/
Delete(workspace_name, object_id) ==
    /\ api_pc = "idle"
    /\ LET found == _get_object(rows, lookup_field, object_id, workspace_name)
       IN IF found.status # 0
          THEN /\ resp' = Response("delete", workspace_name, object_id, InvalidData,
                                   found.status, {}, "", 0)
               /\ UNCHANGED rows
          ELSE /\ rows' = [rows EXCEPT ![found.value] = NoObj]
               /\ resp' = Response("delete", workspace_name, object_id, InvalidData,
                                   204, {found.value}, "", 0)
    /\ UNCHANGED <<lookup_field, unique_fields, row_seq, api_pc>>
    /\ UNCHANGED <<histVars, evVars, concVars, migVars>>

\* A column that holds no value: SQL NULL, None in Python.
NullCode == NoneId

\* _filter_query: the query as it is (GenericView), or the one a filterset
\* narrows (FilterAlchemyMixin); the filterset here keeps the rows created by
\* the current user.
FilterSets == {"none", "creator"}
_filter_query(r, ids, filterset) ==
    IF filterset = "none" THEN ids ELSE {i \in ids : r[i].creator = CurrentUser}

\* Variant: COUNT(column), which leaves out the rows where the column is NULL.
func_count_column(r, ids, group_by, key) ==
    IF key = NullCode THEN 0
    ELSE Cardinality({i \in ids : Column(r, i, group_by) = key})

\* func.count(group_by) where group_by is the text '<table>.<column>': a text
\* argument of a function is a bound value, never NULL, so every row of the
\* group counts.
func_count(r, ids, group_by, key) ==
    Cardinality({i \in ids : Column(r, i, group_by) = key})

\* The rows of query.values(group_by, func.count(group_by)) under GROUP BY: one
\* (key, count) per distinct value of the column, NULL being one value.
grouped_values(r, ids, group_by) ==
    {[key |-> k, count |-> func_count(r, ids, group_by, k)] :
       k \in {Column(r, i, group_by) : i \in ids}}

\* The loop over the (key, count) rows: append a group, add to total_count.
RECURSIVE count_loop(_, _)
count_loop(result, res) ==
    IF result = {} THEN res
    ELSE LET row == CHOOSE x \in result : TRUE
         IN count_loop(result \ {row},
                       [groups |-> res.groups \cup
                                     {[name |-> row.key, count |-> row.count]},
                        total_count |-> res.total_count + row.count])

\* CountWorkspacedMixin.count: GET <prefix>/count/?group_by=<field>. The query
\* joins Workspace and filters by its name; it does not call _get_workspace.
\* Grouping by an attribute that is no column fails in the database.
CountFiltered(workspace_name, group_by, filterset) ==
    /\ api_pc = "idle"
    /\ LET joined == {i \in RowIds :
                         /\ rows[i] # NoObj
                         /\ \E w \in WorkspaceTable :
                               w.id = rows[i].workspace_id /\ w.name = workspace_name}
           matched == _filter_query(rows, joined, filterset)
           res == count_loop(grouped_values(rows, matched, group_by),
                             [groups |-> {}, total_count |-> 0])
           r0 == Response("count", workspace_name, <<>>, InvalidData, 0, {},
                          filterset, 0)
       IN resp' = IF group_by = "" \/ group_by \notin ModelAttrs
                  THEN [r0 EXCEPT !.group_by = group_by, !.status = 404]
                  ELSE IF group_by \notin ModelColumns
                  THEN [r0 EXCEPT !.group_by = group_by, !.status = 500]
                  ELSE [r0 EXCEPT !.group_by = group_by, !.status = 200,
                                  !.ids = matched, !.groups = res.groups,
                                  !.total_count = res.total_count]
    /\ UNCHANGED <<lookup_field, unique_fields, rows, row_seq, api_pc>>
    /\ UNCHANGED <<histVars, evVars, concVars, migVars>>

\* count of a view that declares no filterset.
Count(workspace_name, group_by) == CountFiltered(workspace_name, group_by, "none")

\* count on any table, with or without a filterset.
CountNext ==
    \E workspace_name \in UrlWorkspaceNames, group_by \in GroupByArgs,
       filterset \in FilterSets :
          CountFiltered(workspace_name, group_by, filterset)

(***************************************************************************)
(* The view that is not workspace-scoped (ReadWriteView over GenericView):  *)
(* the same table, its rows bound to no workspace.                          *)
(***************************************************************************)

\* GenericView._get_base_query: model_class.query, every row.
GenericView_get_base_query(r) == {i \in RowIds : r[i] # NoObj}

\* GenericView._get_object.
GenericView_get_object(r, lookup, object_id) ==
    IF int_raises(object_id) THEN Abort(404)
    ELSE LET found == {i \in GenericView_get_base_query(r) :
                         Column(r, i, lookup) = int(object_id)}
         IN IF found = {} THEN Abort(404)
            ELSE IF Cardinality(found) > 1 THEN Abort(500)
            ELSE Ok(CHOOSE i \in found : TRUE)

\* GenericView._validate_uniqueness: "TODO: Implement this", returns True.
GenericView_validate_uniqueness(r, fields, obj, object_id) ==
    [status |-> 0, field |-> "", value |-> 0]

\* CreateMixin.post with CreateMixin._perform_create: one commit, after the
\* creator is set.
ViewPost(body) ==
    /\ api_pc = "idle"
    /\ row_seq \in RowIds
    /\ LET obj == [workspace_id |-> NoneId, code |-> body.code, creator |-> NoUser]
           unique == GenericView_validate_uniqueness(rows, unique_fields, obj, <<>>)
       IN IF body = InvalidData
          THEN /\ resp' = Response("post", "", <<>>, body, 400, {}, "", 0)
               /\ UNCHANGED <<rows, row_seq>>
          ELSE IF unique.status # 0
          THEN /\ resp' = Response("post", "", <<>>, body,
                                   handle_unprocessable_entity(unique.status), {},
                                   unique.field, unique.value)
               /\ UNCHANGED <<rows, row_seq>>
          ELSE /\ rows' = [rows EXCEPT ![row_seq] = [obj EXCEPT !.creator = CurrentUser]]
               /\ row_seq' = row_seq + 1
               /\ resp' = Response("post", "", <<>>, body, 201, {row_seq}, "", 0)
    /\ UNCHANGED <<lookup_field, unique_fields, api_pc>>
    /\ UNCHANGED <<histVars, evVars, concVars, migVars>>

\* UpdateMixin.put with UpdateMixin._perform_update.
ViewPut(object_id, body) ==
    /\ api_pc = "idle"
    /\ LET found == GenericView_get_object(rows, lookup_field, object_id)
           obj == [rows[found.value] EXCEPT !.code = body.code]
           unique == GenericView_validate_uniqueness(rows, unique_fields, obj, object_id)
       IN IF body = InvalidData
          THEN /\ resp' = Response("put", "", object_id, body, 400, {}, "", 0)
               /\ UNCHANGED rows
          ELSE IF found.status # 0
          THEN /\ resp' = Response("put", "", object_id, body, found.status, {}, "", 0)
               /\ UNCHANGED rows
          ELSE IF unique.status # 0
          THEN /\ resp' = Response("put", "", object_id, body,
                                   handle_unprocessable_entity(unique.status),
                                   {found.value}, unique.field, unique.value)
               /\ UNCHANGED rows
          ELSE /\ rows' = [rows EXCEPT ![found.value] = obj]
               /\ resp' = Response("put", "", object_id, body, 200, {found.value}, "", 0)
    /\ UNCHANGED <<lookup_field, unique_fields, row_seq, api_pc>>
    /\ UNCHANGED <<histVars, evVars, concVars, migVars>>

\* RetrieveMixin.get.
ViewGet(object_id) ==
    /\ api_pc = "idle"
    /\ LET obj == GenericView_get_object(rows, lookup_field, object_id)
       IN resp' = IF obj.status # 0
                  THEN Response("get", "", object_id, InvalidData, obj.status, {}, "", 0)
                  ELSE Response("get", "", object_id, InvalidData, 200, {obj.value}, "", 0)
    /\ UNCHANGED <<lookup_field, unique_fields, rows, row_seq, api_pc>>
    /\ UNCHANGED <<histVars, evVars, concVars, migVars>>

\* DeleteMixin.delete.
ViewDelete(object_id) ==
    /\ api_pc = "idle"
    /\ LET found == GenericView_get_object(rows, lookup_field, object_id)
       IN IF found.status # 0
          THEN /\ resp' = Response("delete", "", object_id, InvalidData,
                                   found.status, {}, "", 0)
               /\ UNCHANGED rows
          ELSE /\ rows' = [rows EXCEPT ![found.value] = NoObj]
               /\ resp' = Response("delete", "", object_id, InvalidData,
                                   204, {found.value}, "", 0)
    /\ UNCHANGED <<lookup_field, unique_fields, row_seq, api_pc>>
    /\ UNCHANGED <<histVars, evVars, concVars, migVars>>

ViewNext ==
    \/ \E body \in Bodies : ViewPost(body)
    \/ \E object_id \in UrlIds, body \in Bodies : ViewPut(object_id, body)
    \/ \E object_id \in UrlIds : ViewGet(object_id)
    \/ \E object_id \in UrlIds : ViewDelete(object_id)

(***************************************************************************)
(* The paginated list: PaginatedMixin._paginate under ListMixin.index.      *)
(***************************************************************************)

\* A parameter of the query string: absent, or present with its text.
Absent == [present |-> FALSE, text |-> <<>>]
Arg(text) == [present |-> TRUE, text |-> text]
PageArgs == {Absent} \cup
            {Arg(t) : t \in {<<>>, <<"0">>, <<"1">>, <<"2">>, <<"3">>, <<"x">>, <<"-", "1">>}}

\* The rows of a query in the order the database returns them (by id here).
RECURSIVE all(_)
all(ids) ==
    IF ids = {} THEN <<>>
    ELSE LET i == CHOOSE x \in ids : \A y \in ids : x <= y
         IN <<i>> \o all(ids \ {i})

\* LIMIT per_page OFFSET offset on the rows of a query.
limit_offset(result, per_page, offset) ==
    LET n == Len(result)
        count == IF offset >= n THEN 0
                 ELSE IF per_page < n - offset THEN per_page ELSE n - offset
    IN [k \in 1..count |-> result[offset + k]]

\* What paginate falls back to for a per_page below zero.
PER_PAGE_DEFAULT == 20

\* query.paginate(page, per_page, error_out=False). A page below 1 and a
\* per_page below 0 are not answered 404; what becomes of them is the
\* library's: either they are replaced (page 1, per_page 20), or they reach
\* the database as a negative OFFSET or LIMIT, which it rejects.
paginate(result, page, per_page, replaces) ==
    IF (page < 1 \/ per_page < 0) /\ ~replaces
    THEN [status |-> 500, items |-> <<>>]
    ELSE LET p == IF page < 1 THEN 1 ELSE page
             s == IF per_page < 0 THEN PER_PAGE_DEFAULT ELSE per_page
         IN [status |-> 200, items |-> limit_offset(result, s, (p - 1) * s)]

\* PaginatedMixin._paginate.
_paginate(result, page, page_size, replaces) ==
    IF ~page_size.present THEN [status |-> 200, items |-> result]
    ELSE IF page.present /\ int_raises(page.text) THEN [status |-> 404, items |-> <<>>]
    ELSE IF int_raises(page_size.text) THEN [status |-> 404, items |-> <<>>]
    ELSE paginate(result, IF page.present THEN int(page.text) ELSE 1,
                  int(page_size.text), replaces)

\* ListMixin.index of a view with PaginatedMixin: GET <prefix>/?page=&page_size=
IndexPaginated(workspace_name, page, page_size, replaces) ==
    /\ api_pc = "idle"
    /\ LET base == _get_base_query(rows, workspace_name)
           paged == _paginate(all(base.value), page, page_size, replaces)
       IN resp' = [kind |-> "page", workspace_name |-> workspace_name,
                   page |-> page, page_size |-> page_size,
                   status |-> IF base.status # 0 THEN base.status ELSE paged.status,
                   items |-> IF base.status # 0 THEN <<>> ELSE paged.items,
                   before |-> rows]
    /\ UNCHANGED <<lookup_field, unique_fields, rows, row_seq, api_pc>>
    /\ UNCHANGED <<histVars, evVars, concVars, migVars>>

PaginateNext ==
    \E workspace_name \in UrlWorkspaceNames, page \in PageArgs, page_size \in PageArgs,
       replaces \in BOOLEAN :
          IndexPaginated(workspace_name, page, page_size, replaces)

ApiNext ==
    \/ \E workspace_name \in UrlWorkspaceNames : Index(workspace_name)
    \/ \E workspace_name \in UrlWorkspaceNames, object_id \in UrlIds :
          Get(workspace_name, object_id)
    \/ \E workspace_name \in UrlWorkspaceNames, body \in Bodies :
          Post(workspace_name, body)
    \/ PostAttribute
    \/ \E workspace_name \in UrlWorkspaceNames, object_id \in UrlIds, body \in Bodies :
          Put(workspace_name, object_id, body)
    \/ \E workspace_name \in UrlWorkspaceNames, object_id \in UrlIds :
          Delete(workspace_name, object_id)
    \/ \E workspace_name \in UrlWorkspaceNames, group_by \in GroupByArgs :
          Count(workspace_name, group_by)

(***************************************************************************)
(* Migration b31fa447f00c (add analytics monthly graphs model). The schema *)
(* is the set of its objects: tables, indexes, sequences and constraints,  *)
(* each with the table it belongs to. Creating a table brings its primary  *)
(* key index, the sequence of its integer key and its foreign keys;        *)
(* dropping a table takes with it every object that belongs to it.         *)
(***************************************************************************)
down_revision == "be1f942eba28"
head_revision == "b31fa447f00c"

SchemaObject(kind, name, table, refers) ==
    [kind |-> kind, name |-> name, table |-> table, refers |-> refers]

Op(op, name, table, refers) == [op |-> op, name |-> name, table |-> table, refers |-> refers]

HIT_COUNT == "vulnerability_hit_count"
IX_HIT_COUNT == "ix_vulnerability_hit_count_workspace_id"

HasTable(sch, name) == \E o \in sch : o.kind = "table" /\ o.name = name
HasIndex(sch, name) == \E o \in sch : o.kind = "index" /\ o.name = name

\* op.create_table(name, Column('id', Integer), ..., ForeignKeyConstraint(->
\* refers), PrimaryKeyConstraint('id')): fails when the table exists or the
\* referenced table does not.
create_table(sch, o) ==
    IF HasTable(sch, o.name) \/ ~HasTable(sch, o.refers)
    THEN [failed |-> TRUE, schema |-> sch]
    ELSE [failed |-> FALSE,
          schema |-> sch \cup {SchemaObject("table", o.name, o.name, ""),
                               SchemaObject("index", "pkey", o.name, ""),
                               SchemaObject("sequence", "id_seq", o.name, ""),
                               SchemaObject("constraint", "workspace_id_fkey",
                                            o.name, o.refers)}]

\* op.create_index(name, table, ['workspace_id'], unique=False).
create_index(sch, o) ==
    IF HasIndex(sch, o.name) \/ ~HasTable(sch, o.table)
    THEN [failed |-> TRUE, schema |-> sch]
    ELSE [failed |-> FALSE,
          schema |-> sch \cup {SchemaObject("index", o.name, o.table, "")}]

\* op.drop_index(name, table_name=table): fails when there is no such index.
drop_index(sch, o) ==
    IF ~HasIndex(sch, o.name)
    THEN [failed |-> TRUE, schema |-> sch]
    ELSE [failed |-> FALSE,
          schema |-> {x \in sch : ~(x.kind = "index" /\ x.name = o.name)}]

\* op.drop_table(name): fails when there is no such table or a foreign key of
\* another table refers to it; the objects of the table go with it.
drop_table(sch, o) ==
    IF \/ ~HasTable(sch, o.name)
       \/ \E x \in sch : x.kind = "constraint" /\ x.refers = o.name /\ x.table # o.name
    THEN [failed |-> TRUE, schema |-> sch]
    ELSE [failed |-> FALSE, schema |-> {x \in sch : x.table # o.name}]

apply_op(sch, o) ==
    CASE o.op = "create_table" -> create_table(sch, o)
      [] o.op = "create_index" -> create_index(sch, o)
      [] o.op = "drop_index" -> drop_index(sch, o)
      [] o.op = "drop_table" -> drop_table(sch, o)

\* upgrade(): the table, then its index on workspace_id.
upgrade ==
    <<Op("create_table", HIT_COUNT, HIT_COUNT, "workspace"),
      Op("create_index", IX_HIT_COUNT, HIT_COUNT, "")>>

\* Variant: the table is dropped first.
downgrade_table_first ==
    <<Op("drop_table", HIT_COUNT, HIT_COUNT, ""),
      Op("drop_index", IX_HIT_COUNT, HIT_COUNT, "")>>

\* downgrade(): the index, then the table.
downgrade ==
    <<Op("drop_index", IX_HIT_COUNT, HIT_COUNT, ""),
      Op("drop_table", HIT_COUNT, HIT_COUNT, "")>>

\* The operations of a migration run in order; the first one that fails ends
\* the run.
RECURSIVE run_migration(_, _, _)
run_migration(sch, operations, done) ==
    IF operations = <<>> THEN [failed |-> FALSE, schema |-> sch, log |-> done]
    ELSE LET r == apply_op(sch, Head(operations))
         IN IF r.failed THEN [failed |-> TRUE, schema |-> r.schema, log |-> done]
            ELSE run_migration(r.schema, Tail(operations),
                               Append(done, Head(operations).op))

NoMigration == [op |-> "none", failed |-> FALSE, log |-> <<>>, before |-> {}]

\* alembic upgrade b31fa447f00c, on a schema at the revision before it.
Upgrade ==
    /\ revision = down_revision
    /\ LET r == run_migration(schema, upgrade, <<>>)
       IN /\ schema' = r.schema
          /\ revision' = IF r.failed THEN "failed" ELSE head_revision
          /\ migrated' = [op |-> "upgrade", failed |-> r.failed, log |-> r.log,
                          before |-> schema]
    /\ UNCHANGED <<histVars, evVars, apiVars, concVars>>

\* alembic downgrade -1, on a schema at b31fa447f00c.
Downgrade ==
    /\ revision = head_revision
    /\ LET r == run_migration(schema, downgrade, <<>>)
       IN /\ schema' = r.schema
          /\ revision' = IF r.failed THEN "failed" ELSE down_revision
          /\ migrated' = [op |-> "downgrade", failed |-> r.failed, log |-> r.log,
                          before |-> migrated.before]
    /\ UNCHANGED <<histVars, evVars, apiVars, concVars>>

MigrationNext == Upgrade \/ Downgrade

\* The tables a schema below b31fa447f00c may hold besides workspace, each
\* absent, present, or present with an index on its workspace_id.
OtherTables == {"vulnerability", "severities_histogram", "host", "service"}

TableObjects(name, how) ==
    IF how = "absent" THEN {}
    ELSE {SchemaObject("table", name, name, ""),
          SchemaObject("index", "pkey", name, ""),
          SchemaObject("sequence", "id_seq", name, ""),
          SchemaObject("constraint", "workspace_id_fkey", name, "workspace")}
         \cup (IF how = "indexed"
               THEN {SchemaObject("index", "ix_workspace_id", name, "")}
               ELSE {})

WorkspaceObjects ==
    {SchemaObject("table", "workspace", "workspace", ""),
     SchemaObject("index", "pkey", "workspace", ""),
     SchemaObject("sequence", "id_seq", "workspace", "")}

SchemaOf(how) == WorkspaceObjects \cup UNION {TableObjects(t, how[t]) : t \in OtherTables}

MigDefault ==
    /\ schema = WorkspaceObjects
    /\ revision = down_revision
    /\ migrated = NoMigration

\* The view as GenericWorkspacedView declares it: lookup by id, no unique field.
ApiDefault == ApiInit /\ lookup_field = "id" /\ unique_fields = <<>>

Init == HistInit /\ EvInit /\ ApiDefault /\ ConcInit /\ MigDefault

\* The tables a count can meet: each row present or not, in either workspace,
\* its code a value or NULL, created by the current user or by nobody.
CountTables ==
    [RowIds -> {NoObj} \cup [workspace_id : {w.id : w \in WorkspaceTable},
                             code : Codes \cup {NullCode},
                             creator : {NoUser, CurrentUser}]]

InitCount ==
    /\ HistInit /\ EvInit /\ ConcInit /\ MigDefault
    /\ lookup_field = "id"
    /\ unique_fields = <<>>
    /\ rows \in CountTables
    /\ row_seq = 1
    /\ api_pc = "idle"
    /\ resp = NoRequest

\* Any declaration of the view: lookup by id or by code, with or without a
\* unique field.
InitApi == HistInit /\ EvInit /\ ApiInit /\ ConcInit /\ MigDefault

\* A table of vulnerabilities written on earlier days, before the first write
\* of today: no histogram row of today exists yet.
InitBulk ==
    /\ vulns \in [VulnIds -> BulkRows \cup {NoVuln}]
    /\ hist = EmptyHist
    /\ today = 0
    /\ next_id = MaxOps + 1
    /\ ops = 0
    /\ last = NoWrite
    /\ EvInit
    /\ ApiDefault
    /\ ConcInit
    /\ MigDefault

\* An update of a vulnerability is about to run its hook with some histories.
InitHistories ==
    /\ vulns = [i \in VulnIds |-> NoVuln]
    /\ hist = EmptyHist
    /\ today = 0
    /\ next_id = 1
    /\ ops = 0
    /\ last \in {HistoriesGiven(ws, sh, ch, vh) :
                    ws \in Workspaces, sh \in AttributeHistories(Statuses),
                    ch \in AttributeHistories(BOOLEAN),
                    vh \in AttributeHistories(Severities)}
    /\ EvInit
    /\ ApiDefault
    /\ ConcInit
    /\ MigDefault

Spec == Init /\ [][HistNext]_vars

SpecHistories == InitHistories /\ [][HistoriesNext]_vars

SpecBulk == InitBulk /\ [][BulkNext]_vars

SpecEvents == Init /\ [][EvNext]_vars

SpecCascade == Init /\ [][CascadeNext]_vars

SpecTx == Init /\ [][TxNext]_vars

SpecQueue == Init /\ [][QueueNext]_vars

\* The first writes of the day, or later ones: the row of today may exist.
InitHistogramTx ==
    /\ HistInit
    /\ EvInit
    /\ ApiDefault
    /\ flow = [f \in Flows |-> [n |-> 0, pc |-> "idle"]]
    /\ sent = <<>>
    /\ received = <<>>
    /\ htable \in {[i \in HRowIds |-> NoRow],
                   [i \in HRowIds |-> IF i = 1 THEN HRow(0, 0, 0, 0, NoTx, TRUE)
                                      ELSE NoRow]}
    /\ htx = [t \in Txs |-> IdleTx]
    /\ MigDefault

SpecHistogramTx == InitHistogramTx /\ [][HistogramTxNext]_vars

SpecCount == InitCount /\ [][CountNext]_vars
SpecApi == InitApi /\ [][ApiNext]_vars

SpecView == InitApi /\ [][ViewNext]_vars

InitReopen ==
    /\ \E v \in VulnRows :
          /\ v.status \in OpenStatuses
          /\ vulns = [i \in VulnIds |-> IF i = 1 THEN v ELSE NoVuln]
    /\ \E row \in DayRows : hist = [k \in Workspaces \X Days |-> row]
    /\ today = 0
    /\ next_id = 1
    /\ ops = 0
    /\ last = NoWrite
    /\ EvInit /\ ApiDefault /\ ConcInit /\ MigDefault

SpecReopen == InitReopen /\ [][ReopenNext]_vars

\* The tables a list can meet: each row present or not, in either workspace.
ListTables ==
    [RowIds -> {NoObj} \cup [workspace_id : {w.id : w \in WorkspaceTable},
                             code : {1}, creator : {CurrentUser}]]

InitPaginate ==
    /\ HistInit /\ EvInit /\ ConcInit /\ MigDefault
    /\ lookup_field = "id"
    /\ unique_fields = <<>>
    /\ rows \in ListTables
    /\ row_seq = 1
    /\ api_pc = "idle"
    /\ resp = NoRequest

SpecPaginate == InitPaginate /\ [][PaginateNext]_vars

InitMigration ==
    /\ HistInit /\ EvInit /\ ApiDefault /\ ConcInit
    /\ schema \in {SchemaOf(how) : how \in [OtherTables -> {"absent", "present", "indexed"}]}
    /\ revision = down_revision
    /\ migrated = NoMigration

SpecMigration == InitMigration /\ [][MigrationNext]_vars

(***************************************************************************)
(* Readings of the state used by the properties below.                     *)
(***************************************************************************)
\* The number of existing vulnerabilities of workspace ws with the given
\* severity and a status of open or re-opened.
OpenCount(ws, severity) ==
    Cardinality({i \in VulnIds : /\ vulns[i] # NoVuln
                                 /\ vulns[i].workspace_id = ws
                                 /\ vulns[i].severity = severity
                                 /\ vulns[i].status \in OpenStatuses})

\* The (workspace, today) row before and after the last write, a missing row as zeros.
RowBefore == RowOrZero(last.before, last.ws, today)
RowAfter == RowOrZero(hist, last.ws, today)

\* Every row other than the (workspace, today) row of the last write is as it was.
OtherRowsKept ==
    \A k \in Workspaces \X Days : k # <<last.ws, today>> => hist[k] = last.before[k]

IsClose == /\ last.op = "update"
           /\ last.old.status \in OpenStatuses
           /\ last.new.status \in ClosedStatuses

Bit(b) == IF b THEN 1 ELSE 0

(***************************************************************************)
(* C1. Within a single day, from an empty workspace, the medium, high and  *)
(* critical counters of the (workspace, today) row equal the number of     *)
(* existing vulnerabilities of that workspace with that severity and a     *)
(* status of open or re-opened (a missing row counting as zeros).          *)
(* The hooks do not keep this: alter_histogram_on_insert counts a row      *)
(* whatever its status is.                                                 *)
(***************************************************************************)
C1_CountersEqualOpenVulns ==
    today = 0 =>
        \A ws \in Workspaces : \A severity \in SEVERITIES_ALLOWED :
            RowOrZero(hist, ws, 0)[severity] = OpenCount(ws, severity)

(***************************************************************************)
(* C8. An insert with a tracked severity adds 1 to that severity's counter,*)
(* 0 to the other two and 1 to confirmed iff the new row is confirmed, on  *)
(* the (workspace, today) row, which is created with exactly these values  *)
(* when missing; an insert with another severity leaves the histogram as   *)
(* it was and creates no row.                                              *)
(***************************************************************************)
C8_InsertDelta ==
    last.op = "insert" =>
        IF last.new.severity \in SEVERITIES_ALLOWED
        THEN /\ hist[<<last.ws, today>>] # NoRow
             /\ \A severity \in SEVERITIES_ALLOWED :
                    RowAfter[severity] =
                        RowBefore[severity] + Bit(severity = last.new.severity)
             /\ RowAfter.confirmed = RowBefore.confirmed + Bit(last.new.confirmed)
             /\ OtherRowsKept
        ELSE hist = last.before

\* A confirmed high vulnerability was inserted where no row existed (section 8, property 4).
C8_Witness ==
    /\ last.op = "insert"
    /\ last.new.severity = SEVERITY_HIGH
    /\ last.new.confirmed
    /\ last.before[<<last.ws, today>>] = NoRow
    /\ hist[<<last.ws, today>>] =
            [medium |-> 0, high |-> 1, critical |-> 0, confirmed |-> 1]

C10_CloseConfirmedDelta ==
    (IsClose /\ last.old.severity \in SEVERITIES_ALLOWED) =>
        /\ \E s \in SEVERITIES_ALLOWED :
              /\ RowAfter[s] = RowBefore[s] - 1
              /\ \A t \in SEVERITIES_ALLOWED \ {s} : RowAfter[t] = RowBefore[t]
        /\ RowAfter.confirmed = RowBefore.confirmed - Bit(last.old.confirmed)

\* A confirmed vulnerability was closed and unconfirmed in one update: confirmed went down.
C10_Witness ==
    /\ IsClose
    /\ last.old.severity \in SEVERITIES_ALLOWED
    /\ last.old.confirmed
    /\ ~last.new.confirmed
    /\ RowAfter.confirmed = RowBefore.confirmed - 1

IsReopen == /\ last.op = "update"
            /\ last.old.status \in ClosedStatuses
            /\ last.new.status \in OpenStatuses

(***************************************************************************)
(* C11. On an update that changes status from closed/risk-accepted to      *)
(* open/re-opened, the counter of the severity after the update increases  *)
(* by 1 when that severity is tracked (the other severity counters keep    *)
(* their values), and the confirmed counter changes by +1 if the           *)
(* vulnerability is confirmed after the update and by 0 otherwise.         *)
(* The reopen branch makes its one call only for a tracked severity, so a  *)
(* confirmed vulnerability of another severity is reopened without the     *)
(* confirmed counter moving (see C12).                                     *)
(***************************************************************************)
C11_ReopenDelta ==
    IsReopen =>
        /\ \A severity \in SEVERITIES_ALLOWED :
              RowAfter[severity] =
                  RowBefore[severity] + Bit(severity = last.new.severity)
        /\ RowAfter.confirmed = RowBefore.confirmed + Bit(last.new.confirmed)

\* The part of C11 that the reopen branch keeps: the deltas for a tracked severity.
C11_ReopenTrackedDelta ==
    (IsReopen /\ last.new.severity \in SEVERITIES_ALLOWED) => C11_ReopenDelta

(***************************************************************************)
(* C12. On an update of a vulnerability whose severity is outside          *)
(* {medium, high, critical} before and after the update, no severity       *)
(* counter changes and the confirmed counter changes by the confirmed      *)
(* delta of the case: the change of confirmed when the status stays open   *)
(* or re-opened, -1 for a close of a vulnerability confirmed before it,    *)
(* +1 for a reopen of a vulnerability confirmed after it.                  *)
(* The close and reopen branches skip their call for such a severity.      *)
(***************************************************************************)
C12_UntrackedConfirmedDelta ==
    (/\ last.op = "update"
     /\ last.old.severity \notin SEVERITIES_ALLOWED
     /\ last.new.severity \notin SEVERITIES_ALLOWED)
        => /\ \A severity \in SEVERITIES_ALLOWED : RowAfter[severity] = RowBefore[severity]
           /\ IsClose => RowAfter.confirmed = RowBefore.confirmed - Bit(last.old.confirmed)
           /\ IsReopen => RowAfter.confirmed = RowBefore.confirmed + Bit(last.new.confirmed)
           /\ (last.old.status = last.new.status /\ last.old.status \in OpenStatuses)
                 => RowAfter.confirmed =
                        RowBefore.confirmed + Bit(last.new.confirmed) - Bit(last.old.confirmed)

\* The histogram after the after_delete hook ran for each of the rows, one by one.
RECURSIVE DeleteEach(_, _, _)
DeleteEach(h, table, instances) ==
    IF instances = {} THEN h
    ELSE LET i == Lowest(instances)
         IN DeleteEach(alter_histogram_on_delete(h, today, table[i]), table,
                       instances \ {i})

\* The histogram after the before_update hook ran for each of the rows, one by
\* one, each row going from its current values to the target values.
RECURSIVE UpdateEach(_, _, _, _)
UpdateEach(h, table, instances, context_values) ==
    IF instances = {} THEN h
    ELSE LET i == Lowest(instances)
         IN UpdateEach(alter_histogram_on_update(h, today, table[i],
                                                 with_values(table[i], context_values)),
                       table, instances \ {i}, context_values)

(***************************************************************************)
(* C13. Deleting a vulnerability takes 1 from its severity counter and 1   *)
(* from the confirmed counter if it was confirmed, exactly when its status *)
(* is open or re-opened and its severity is tracked, and otherwise leaves  *)
(* the histogram as it was; a bulk delete leaves the histogram that        *)
(* deleting each row matched by its query one by one would leave.          *)
(***************************************************************************)
C13_DeleteDelta ==
    /\ last.op = "delete" =>
          IF last.old.status \in OpenStatuses /\ last.old.severity \in SEVERITIES_ALLOWED
          THEN /\ \A severity \in SEVERITIES_ALLOWED :
                      RowAfter[severity] =
                          RowBefore[severity] - Bit(severity = last.old.severity)
               /\ RowAfter.confirmed = RowBefore.confirmed - Bit(last.old.confirmed)
               /\ OtherRowsKept
          ELSE hist = last.before
    /\ last.op = "bulk_delete" =>
          hist = DeleteEach(last.before, last.rows, query_all(last.rows, last.query))

\* A bulk delete matched two open medium vulnerabilities of one workspace, one
\* of them confirmed: medium is down by 2 and confirmed by 1.
C13_Witness ==
    /\ last.op = "bulk_delete"
    /\ Cardinality(query_all(last.rows, last.query)) = 2
    /\ \E ws \in Workspaces :
          /\ \A i \in query_all(last.rows, last.query) :
                /\ last.rows[i].workspace_id = ws
                /\ last.rows[i].status = STATUS_OPEN
                /\ last.rows[i].severity = SEVERITY_MEDIUM
          /\ \E i, j \in query_all(last.rows, last.query) :
                last.rows[i].confirmed /\ ~last.rows[j].confirmed
          /\ hist[<<ws, today>>] =
                [medium |-> -2, high |-> 0, critical |-> 0, confirmed |-> -1]

(***************************************************************************)
(* C14. A bulk update leaves the histogram that updating each row matched  *)
(* by its query one by one, from its current values to the target values,  *)
(* would leave; rows the query does not match bring no adjustment.         *)
(* With an id filter the hook adjusts for every row of these ids, also     *)
(* for those the other filters of the query exclude.                       *)
(***************************************************************************)
C14_BulkUpdateAsEachRow ==
    last.op = "bulk_update" =>
        hist = UpdateEach(last.before, last.rows,
                          query_all(last.rows, last.query), last.values)

\* The part of C14 the hook keeps: queries without an id filter.
C14_BulkUpdateWithoutIdFilter ==
    (last.op = "bulk_update" /\ last.query.ids = {}) => C14_BulkUpdateAsEachRow

(***************************************************************************)
(* C15. The update path never raises: whatever histories of status,        *)
(* confirmed and severity the hook is given, complete or not, it applies a *)
(* delta or returns without one.                                           *)
(* The hook indexes status_history.added and .deleted, and uses a severity *)
(* it may not have assigned, without looking at their lengths.             *)
(***************************************************************************)
C15_UpdatePathNeverRaises ==
    last.op = "update_general" => last.outcome.kind # "raise"

(***************************************************************************)
(* Properties of the Host / Service hooks.                                 *)
(***************************************************************************)
IsWrite == evlast.op \in {"insert", "update"}

\* The parent row of the instance of the last write, as it was before the write.
ParentBefore ==
    IF evlast.row.parent = NoneId THEN NoObj ELSE evlast.objs[<<"Host", evlast.row.parent>>]

C4_SuppressedIffUnder30Seconds ==
    (evlast.op = "update" /\ ~evlast.fault) =>
        LET elapsed == evlast.row.update_date - evlast.row.create_date
        IN IF elapsed < 30
           THEN changes_queue = evlast.queue
           ELSE changes_queue =
                    Append(evlast.queue,
                           [id |-> evlast.id, action |-> "UPDATE", type |-> evlast.type,
                            workspace |-> evlast.row.workspace_id])

(***************************************************************************)
(* C7. Deleting a Host or Service removes exactly the TagObject, Comment   *)
(* and File rows whose (object_id, object_type) are the id and lower-cased *)
(* class name of the deleted object, leaves every other row in place, and  *)
(* enqueues exactly one DELETE message, which is put on the queue only     *)
(* after those rows have been removed.                                     *)
(***************************************************************************)
C7_CascadeThenNotify ==
    evlast.op = "delete" =>
        LET type_name == IF evlast.type = "Host" THEN "host" ELSE "service"
            Kept(table) == {r \in table : ~(r.object_id = evlast.id
                                            /\ r.object_type = type_name)}
            removed == /\ tags = Kept(evlast.tags)
                       /\ comments = Kept(evlast.comments)
                       /\ files = Kept(evlast.files)
        IN /\ pc # "idle" => changes_queue = evlast.queue
           /\ pc = "put" => removed
           /\ pc = "idle" =>
                /\ removed
                /\ changes_queue =
                     Append(evlast.queue,
                            [id |-> evlast.id, action |-> "DELETE",
                             type |-> evlast.type,
                             workspace |-> evlast.row.workspace_id])

\* A host with a tag, a comment and a file was deleted: the three rows are gone
\* and one DELETE message is the newest of the queue.
C7_Witness ==
    /\ evlast.op = "delete"
    /\ evlast.type = "Host"
    /\ pc = "idle"
    /\ [object_id |-> evlast.id, object_type |-> "host"]
          \in (evlast.tags \cap evlast.comments \cap evlast.files)
    /\ [object_id |-> evlast.id, object_type |-> "host"]
          \notin (tags \cup comments \cup files)
    /\ Len(changes_queue) = Len(evlast.queue) + 1
    /\ changes_queue[Len(changes_queue)].action = "DELETE"

(***************************************************************************)
(* C16. When the transaction of a Host/Service insert, update or delete    *)
(* rolls back after its hooks ran, the rows of the database (the entity,   *)
(* the tags, comments and files) are again those the transaction started   *)
(* from, while every message its hooks enqueued is still on the queue: the *)
(* CREATE message of the insert or the DELETE message of the delete is the *)
(* newest message, for a change that was never committed.                  *)
(***************************************************************************)
C16_RollbackKeepsMessages ==
    evlast.op = "rollback" =>
        LET message(action) == [id |-> evlast.id, action |-> action,
                                type |-> evlast.type,
                                workspace |-> evlast.row.workspace_id]
        IN /\ objs = evlast.objs
           /\ tags = evlast.tags
           /\ comments = evlast.comments
           /\ files = evlast.files
           /\ changes_queue = evlast.enqueued
           /\ evlast.undone = "insert" =>
                /\ changes_queue = Append(evlast.queue, message("CREATE"))
                /\ objs[<<evlast.type, evlast.id>>] = NoObj
           /\ evlast.undone = "delete" =>
                /\ changes_queue = Append(evlast.queue, message("DELETE"))
                /\ objs[<<evlast.type, evlast.id>>] = evlast.row
           /\ evlast.undone = "update" =>
                \/ changes_queue = evlast.queue
                \/ changes_queue = Append(evlast.queue, message("UPDATE"))

\* The delete of a tagged host was rolled back: the host and its tag are back,
\* and the DELETE message of the host is the newest of the queue.
C16_Witness ==
    /\ evlast.op = "rollback"
    /\ evlast.undone = "delete"
    /\ evlast.type = "Host"
    /\ objs[<<"Host", evlast.id>>] # NoObj
    /\ evlast.uncommitted.objs[<<"Host", evlast.id>>] = NoObj
    /\ [object_id |-> evlast.id, object_type |-> "host"] \in tags
    /\ [object_id |-> evlast.id, object_type |-> "host"] \notin evlast.uncommitted.tags
    /\ Len(changes_queue) > 0
    /\ changes_queue[Len(changes_queue)].action = "DELETE"
    /\ changes_queue[Len(changes_queue)].id = evlast.id

(***************************************************************************)
(* C17. With concurrent flows creating, updating and deleting hosts and    *)
(* several consumers taking from the change queue, the messages taken so   *)
(* far, in the order they were taken, followed by the messages still on    *)
(* the queue, are the messages put, in the order of the puts: no message   *)
(* is lost or duplicated, each message taken went to one consumer, and the *)
(* messages of one flow keep their order (CREATE, UPDATE, DELETE).         *)
(***************************************************************************)
Taken == [k \in 1..Len(received) |-> received[k].msg]

C17_QueueFifo ==
    /\ Taken \o changes_queue = sent
    /\ \A i, j \in 1..Len(sent) : sent[i] = sent[j] => i = j
    /\ \A i, j \in 1..Len(Taken) :
          (i < j /\ Taken[i].id = Taken[j].id) =>
              <<Taken[i].action, Taken[j].action>> \in
                  {<<"CREATE", "UPDATE">>, <<"CREATE", "DELETE">>, <<"UPDATE", "DELETE">>}

\* Two consumers took the messages of two flows whose hooks interleaved: the
\* first flow created its host, the second one too, then the first updated it.
C17_Witness ==
    /\ Len(received) = 3
    /\ changes_queue = <<>>
    /\ received[1].consumer # received[2].consumer
    /\ received[1].msg.id # received[2].msg.id
    /\ received[3].msg.id = received[1].msg.id
    /\ received[3].msg.action = "UPDATE"

(***************************************************************************)
(* C18. After any interleaving of concurrent transactions that each run    *)
(* _create_or_update_histogram for the same workspace and day, there is at *)
(* most one severities_histogram row of that (workspace_id, date), and     *)
(* once all have committed its counters are the sums of the deltas of the  *)
(* transactions (plus what the row held before).                           *)
(* Two transactions that both select before either commits its INSERT both *)
(* find no row and both insert one.                                        *)
(***************************************************************************)
CommittedRows == {i \in HRowIds : htable[i] # NoRow /\ htable[i].committed}

Delta(field) ==
    Cardinality({t \in Txs : IF field = "confirmed" THEN htx[t].confirmed
                                                   ELSE htx[t].severity = field})

C18_OneRowNoLostUpdate ==
    /\ Cardinality(CommittedRows) <= 1
    /\ (\A t \in Txs : htx[t].pc = "done") =>
          \A i \in CommittedRows :
              \A field \in {"medium", "high", "critical", "confirmed"} :
                  htable[i][field] = Delta(field)

\* The part of C18 the database does give: when the row of the day exists before
\* the transactions start, the UPDATEs are serialised and no delta is lost.
C18_NoLostUpdateOnExistingRow ==
    (/\ htable[1] # NoRow
     /\ htable[1].owner = NoTx
     /\ \A t \in Txs : htx[t].pc = "done")
        => /\ CommittedRows = {1}
           /\ \A field \in {"medium", "high", "critical", "confirmed"} :
                  htable[1][field] = Delta(field)

(***************************************************************************)
(* Properties of the workspace-scoped view.                                *)
(***************************************************************************)
\* The id of the workspace a request names, NoneId when there is none.
RequestWorkspaceId ==
    IF \E w \in WorkspaceTable : w.name = resp.workspace_name
    THEN (CHOOSE w \in WorkspaceTable : w.name = resp.workspace_name).id
    ELSE NoneId

\* The rows of the request's workspace before the request.
RowsOfWorkspaceBefore ==
    {i \in RowIds : /\ resp.before[i] # NoObj
                    /\ resp.before[i].workspace_id = RequestWorkspaceId}

\* Before a POST: the rows of the workspace holding the posted code.
Duplicates == {i \in RowsOfWorkspaceBefore : resp.before[i].code = resp.body.code}

IsDuplicatePost ==
    /\ resp.kind = "post"
    /\ unique_fields = <<"code">>
    /\ resp.body # InvalidData
    /\ Duplicates # {}

\* The text of the URL that addresses row i with the view's lookup field.
UrlOf(i) == IF lookup_field = "id" THEN str(i) ELSE str(rows[i].code)

(***************************************************************************)
(* C2 as stated: a POST whose value for a declared unique field equals     *)
(* that of a persisted object of the same workspace is answered with       *)
(* status 422, and nothing is persisted.                                   *)
(***************************************************************************)
C2_DuplicateAnswered422 ==
    IsDuplicatePost => (resp.status = 422 /\ rows = resp.before)

(***************************************************************************)
(* C2 amended: such a POST persists nothing and leaves every existing      *)
(* object unchanged; when exactly one object of the workspace holds the    *)
(* value, the response has status 400 (the 422 raised by                   *)
(* _validate_uniqueness is answered by the handler register installs,      *)
(* which uses 400 instead of 422) and names the field and the value, and   *)
(* the existing object is still retrievable.                               *)
(***************************************************************************)
C2_DuplicateRejected ==
    IsDuplicatePost =>
        /\ rows = resp.before
        /\ api_pc = "idle"
        /\ Cardinality(Duplicates) = 1 =>
              /\ resp.status = 400
              /\ resp.field = "code"
              /\ resp.value = resp.body.code
              /\ \A i \in Duplicates :
                    _get_object(rows, lookup_field, UrlOf(i), resp.workspace_name)
                        = Ok(i)

\* A POST repeated the code of the one object of the workspace that has it.
C2_Witness ==
    /\ IsDuplicatePost
    /\ Cardinality(Duplicates) = 1
    /\ resp.status = 400
    /\ rows = resp.before

(***************************************************************************)
(* C5. A list, retrieve, update, delete or count request addressed to a    *)
(* workspace never returns, modifies, deletes or counts an object of       *)
(* another workspace; addressing an object of another workspace by its id  *)
(* yields 404; and a (well-formed) request naming a workspace that does    *)
(* not exist yields 404.                                                   *)
(* count never resolves the workspace and answers 200 with no groups.      *)
(***************************************************************************)
WellFormed ==
    /\ resp.kind \in {"post", "put"} => resp.body # InvalidData
    /\ resp.kind = "count" => resp.group_by \in ModelColumns

C5_WorkspaceScoped ==
    resp.kind # "none" =>
        /\ resp.kind # "post" => resp.ids \subseteq RowsOfWorkspaceBefore
        /\ \A i \in RowIds :
              (resp.before[i] # NoObj /\ i \notin RowsOfWorkspaceBefore)
                  => rows[i] = resp.before[i]
        /\ (/\ resp.kind \in {"get", "put", "delete"}
            /\ WellFormed
            /\ lookup_field = "id"
            /\ \E i \in RowIds \ RowsOfWorkspaceBefore :
                  resp.before[i] # NoObj /\ resp.object_id = str(i))
                => resp.status = 404
        /\ (WellFormed /\ RequestWorkspaceId = NoneId) => resp.status = 404

(***************************************************************************)
(* C6 as stated: _get_object fails with NotFound (404) when the id is      *)
(* malformed, when no row matches and when several rows match; it returns  *)
(* the object only when exactly one row matches.                           *)
(***************************************************************************)
Matches ==
    {i \in RowsOfWorkspaceBefore :
        (IF lookup_field = "id" THEN i ELSE resp.before[i].code) = int(resp.object_id)}

Malformed == \E k \in 1..Len(resp.object_id) : resp.object_id[k] \notin {"1", "2", "3"}

C6_NotFoundUnlessOne ==
    resp.kind \in {"get", "delete"} =>
        IF Malformed \/ Cardinality(Matches) # 1
        THEN resp.status = 404
        ELSE resp.status \in {200, 204} /\ resp.ids = Matches

(***************************************************************************)
(* C6 amended: _get_object fails with NotFound (404) when the id is        *)
(* malformed, when the workspace does not exist and when no row matches;   *)
(* when several rows match, .one() raises MultipleResultsFound, which is   *)
(* not caught and is no 404; the object is returned only when exactly one  *)
(* row matches.                                                            *)
(***************************************************************************)
C6_GetObject ==
    resp.kind \in {"get", "delete"} =>
        IF Malformed \/ Matches = {}
        THEN resp.status = 404 /\ resp.ids = {}
        ELSE IF Cardinality(Matches) > 1
        THEN resp.status = 500 /\ resp.ids = {} /\ rows = resp.before
        ELSE resp.status \in {200, 204} /\ resp.ids = Matches

\* Two rows of the workspace have the looked-up code: the GET is no 404.
C6_Witness ==
    /\ resp.kind = "get"
    /\ ~Malformed
    /\ Cardinality(Matches) = 2
    /\ resp.status = 500

(***************************************************************************)
(* Properties of the count endpoint.                                       *)
(***************************************************************************)

\* The rows a count is about: those of the workspace named in the request
\* that pass the filterset of the view.
CountedRows ==
    {i \in RowIds :
       /\ resp.before[i] # NoObj
       /\ \E w \in WorkspaceTable :
             w.name = resp.workspace_name /\ w.id = resp.before[i].workspace_id
       /\ resp.field = "creator" => resp.before[i].creator = CurrentUser}

RowsWithValue(k) == {i \in CountedRows : Column(resp.before, i, resp.group_by) = k}

RECURSIVE SumCounts(_)
SumCounts(groups) ==
    IF groups = {} THEN 0
    ELSE LET g == CHOOSE x \in groups : TRUE
         IN g.count + SumCounts(groups \ {g})

(* C19. A count grouped by a valid column answers with exactly one group   *)
(* per distinct value of that column among the rows of the addressed       *)
(* workspace that pass the filters, NULL being a value; the count of each  *)
(* group is the number of those rows holding its value; total_count is the *)
(* sum of the group counts and the number of those rows.                   *)
C19_CountGroups ==
    (resp.kind = "count" /\ resp.group_by \in ModelColumns) =>
        /\ resp.status = 200
        /\ \A i \in CountedRows :
              Cardinality({g \in resp.groups :
                             g.name = Column(resp.before, i, resp.group_by)}) = 1
        /\ \A g \in resp.groups :
              /\ RowsWithValue(g.name) # {}
              /\ g.count = Cardinality(RowsWithValue(g.name))
        /\ resp.total_count = SumCounts(resp.groups)
        /\ resp.total_count = Cardinality(CountedRows)

\* C19: a filtered count that meets a row holding NULL in the column and a row
\* that the filter or the workspace leaves out.
C19_Witness ==
    /\ resp.kind = "count"
    /\ resp.status = 200
    /\ resp.field = "creator"
    /\ \E g \in resp.groups : g.name = NullCode /\ g.count >= 1
    /\ \E i \in RowIds : resp.before[i] # NoObj /\ i \notin CountedRows

(* C20. A count whose group_by is missing, empty or names no column of the  *)
(* model (a relationship, say) is answered 404, and no grouping query is    *)
(* run. A missing and an empty group_by are both the empty text here; a     *)
(* grouping query that was run on a name that is no column shows as 500.    *)
(* Violated: a relationship is in inspect(model_class).attrs, passes the    *)
(* test and is grouped by.                                                  *)
C20_InvalidGroupBy404 ==
    (resp.kind = "count" /\ resp.group_by \notin ModelColumns) => resp.status = 404

\* C20, the names that are no attribute of the model at all: these are
\* answered 404.
C20_UnknownGroupBy404 ==
    (resp.kind = "count" /\ resp.group_by \notin ModelAttrs) => resp.status = 404

(***************************************************************************)
(* Properties of the update hook when status and severity stay.            *)
(***************************************************************************)

\* The last write is an update that changed neither status nor severity.
IsQuietUpdate ==
    /\ last.op = "update"
    /\ last.old.status = last.new.status
    /\ last.old.severity = last.new.severity

(* C26. An update that changes none of status, severity and confirmed, and *)
(* one that changes only confirmed while the status is closed or           *)
(* risk-accepted, leave every counter as it was and create no histogram    *)
(* row; one that changes only confirmed while the status is open or        *)
(* re-opened moves the confirmed counter of (workspace, today) by +1 or -1 *)
(* and no severity counter.                                                *)
C26_ConfirmedOnlyDelta ==
    IsQuietUpdate =>
        IF last.old.confirmed = last.new.confirmed \/ last.old.status \in ClosedStatuses
        THEN hist = last.before
        ELSE LET b == RowOrZero(last.before, last.ws, today)
                 a == RowOrZero(hist, last.ws, today)
             IN /\ a.confirmed = b.confirmed + (IF last.new.confirmed THEN 1 ELSE -1)
                /\ \A s \in SEVERITIES_ALLOWED : a[s] = b[s]
                /\ \A k \in DOMAIN hist : k # <<last.ws, today>> => hist[k] = last.before[k]

\* C26: confirmed was taken from an open vulnerability of an untracked
\* severity, and nothing else changed.
C26_Witness ==
    /\ IsQuietUpdate
    /\ last.old.status \in OpenStatuses
    /\ last.old.confirmed
    /\ ~last.new.confirmed
    /\ last.old.severity \notin SEVERITIES_ALLOWED

\* C26: confirmed was changed on a closed vulnerability.
C26_WitnessClosed ==
    /\ IsQuietUpdate
    /\ last.old.status \in ClosedStatuses
    /\ last.old.confirmed # last.new.confirmed

(* C28. Within a single day, from a workspace with no vulnerability and no *)
(* histogram row, after any sequence of single-row inserts, updates and    *)
(* deletes every counter of the (workspace, today) row is at least zero.   *)
C28_CountersNonNegative ==
    today = 0 =>
        \A ws \in Workspaces :
           /\ RowOrZero(hist, ws, 0).medium >= 0
           /\ RowOrZero(hist, ws, 0).high >= 0
           /\ RowOrZero(hist, ws, 0).critical >= 0
           /\ RowOrZero(hist, ws, 0).confirmed >= 0

(***************************************************************************)
(* Properties of create, update and delete, in both kinds of view.         *)
(***************************************************************************)

(* C21. In a create request authorship is attributed before the commit: no *)
(* committed state of the table holds an object without its creator.       *)
(* Violated by the workspace-scoped view: _perform_create commits the new  *)
(* object, post sets the creator afterwards and commits again.             *)
C21_CreatorBeforeCommit ==
    \A i \in RowIds : rows[i] # NoObj => rows[i].creator = CurrentUser

\* Two persisted objects of one scope (one workspace; the whole table for the
\* view that is not workspace-scoped) holding the same code.
DuplicatePersisted ==
    \E i, j \in RowIds :
       /\ i # j
       /\ rows[i] # NoObj
       /\ rows[j] # NoObj
       /\ rows[i].workspace_id = rows[j].workspace_id
       /\ rows[i].code = rows[j].code

(* C22. For a view with configured unique fields, after any sequence of    *)
(* create and update requests run one after the other no two persisted     *)
(* objects of one scope hold the same value of a unique field.             *)
(* Violated by the view that is not workspace-scoped, whose                *)
(* _validate_uniqueness accepts everything.                                *)
C22_NoDuplicatePersisted ==
    unique_fields = <<"code">> => ~DuplicatePersisted

\* C22, the workspace-scoped view whose lookup field is the primary key.
C22_NoDuplicateLookupById ==
    (unique_fields = <<"code">> /\ lookup_field = "id") => ~DuplicatePersisted

(***************************************************************************)
(* Properties of migration b31fa447f00c.                                   *)
(***************************************************************************)

(* C23. upgrade and then downgrade, on a schema that holds the workspace   *)
(* table, leave the schema as it was before the upgrade: the table         *)
(* vulnerability_hit_count and the index                                   *)
(* ix_vulnerability_hit_count_workspace_id are gone, the index dropped     *)
(* before the table, nothing else added or removed. The upgrade in between *)
(* did create both.                                                        *)
C23_UpgradeDowngrade ==
    /\ migrated.op = "upgrade" =>
          /\ ~migrated.failed
          /\ HasTable(schema, HIT_COUNT)
          /\ HasIndex(schema, IX_HIT_COUNT)
          /\ migrated.before \subseteq schema
    /\ migrated.op = "downgrade" =>
          /\ ~migrated.failed
          /\ schema = migrated.before
          /\ ~\E o \in schema : o.table = HIT_COUNT \/ o.name = IX_HIT_COUNT
          /\ migrated.log = <<"drop_index", "drop_table">>

\* C23: a downgrade has run after an upgrade, on a schema that held other
\* tables and indexes besides workspace.
C23_Witness ==
    /\ migrated.op = "downgrade"
    /\ revision = down_revision
    /\ HasTable(schema, "vulnerability")
    /\ HasIndex(schema, "ix_workspace_id")

(***************************************************************************)
(* Properties of the paginated list.                                       *)
(***************************************************************************)

\* The filtered result of the list request, in order.
ListedBefore ==
    all({i \in RowIds : /\ resp.before[i] # NoObj
                        /\ resp.before[i].workspace_id = RequestWorkspaceId})

\* The items at the positions lo..hi of a result, those that exist.
ItemsAt(result, lo, hi) ==
    LET first == IF lo < 1 THEN 1 ELSE lo
        end == IF hi > Len(result) THEN Len(result) ELSE hi
    IN IF end < first THEN <<>> ELSE [k \in 1..(end - first + 1) |-> result[first + k - 1]]

RequestedPage == IF resp.page.present THEN int(resp.page.text) ELSE 1
RequestedSize == int(resp.page_size.text)

IsPageRequest == resp.kind = "page" /\ RequestWorkspaceId # NoneId

ValidPageArgs ==
    /\ resp.page_size.present
    /\ ~int_raises(resp.page_size.text)
    /\ resp.page.present => ~int_raises(resp.page.text)

(* C24. A list request with page_size=s and page=p (1 when absent) returns *)
(* the items at positions (p-1)*s+1 .. p*s of the filtered result, at most *)
(* s items; a page or page_size that is no integer is answered 404;        *)
(* without page_size the whole result is returned.                         *)
(* Violated for a page below 1 (and a page_size below 0).                  *)
C24_PageOfResult ==
    IsPageRequest =>
        /\ ~resp.page_size.present =>
              resp.status = 200 /\ resp.items = ListedBefore
        /\ (resp.page_size.present /\ ~ValidPageArgs) => resp.status = 404
        /\ ValidPageArgs =>
              /\ resp.status = 200
              /\ resp.items = ItemsAt(ListedBefore,
                                      (RequestedPage - 1) * RequestedSize + 1,
                                      RequestedPage * RequestedSize)
              /\ Len(resp.items) <= RequestedSize

\* C24, for a page from 1 on and a page_size from 0 on.
C24_PageOfResultFromOne ==
    IsPageRequest =>
        /\ ~resp.page_size.present =>
              resp.status = 200 /\ resp.items = ListedBefore
        /\ (resp.page_size.present /\ ~ValidPageArgs) => resp.status = 404
        /\ (ValidPageArgs /\ RequestedPage >= 1 /\ RequestedSize >= 0) =>
              /\ resp.status = 200
              /\ resp.items = ItemsAt(ListedBefore,
                                      (RequestedPage - 1) * RequestedSize + 1,
                                      RequestedPage * RequestedSize)
              /\ Len(resp.items) <= RequestedSize

\* A PUT with a valid body that addresses one object and keeps its code, which
\* no other object of the workspace holds.
KeepsOwnValue ==
    /\ resp.kind = "put"
    /\ resp.body # InvalidData
    /\ ~Malformed
    /\ unique_fields = <<"code">>
    /\ Cardinality(Matches) = 1
    /\ \A i \in Matches :
          /\ resp.before[i].code = resp.body.code
          /\ \A j \in RowsOfWorkspaceBefore \ {i} : resp.before[j].code # resp.body.code

(* C27. An update that keeps the object's own value of every unique field  *)
(* is never rejected as a uniqueness conflict because of the object's own  *)
(* row, whatever the lookup field.                                         *)
(* Violated when the lookup field is not the primary key: the row left out *)
(* of the duplicate search is the one whose primary key equals the URL's   *)
(* lookup value.                                                           *)
C27_OwnRowExcluded ==
    KeepsOwnValue => resp.status = 200

\* C27, for the view whose lookup field is the primary key.
C27_OwnRowExcludedLookupById ==
    (KeepsOwnValue /\ lookup_field = "id") => resp.status = 200

(***************************************************************************)
(* Properties of delete.                                                   *)
(***************************************************************************)

\* The rows of workspace ws that the lookup value x addresses in table r.
Addressed(r, ws, x) ==
    {i \in RowIds : /\ r[i] # NoObj
                    /\ r[i].workspace_id = ws
                    /\ (IF lookup_field = "id" THEN i ELSE r[i].code) = x}

LookupValues == RowIds \cup Codes

\* A step after which a lookup value that addressed no object addresses one.
Reappears ==
    \E w \in WorkspaceTable, x \in LookupValues :
       Addressed(rows, w.id, x) = {} /\ Addressed(rows', w.id, x) # {}

C25_AbsentUntilCreated == [][Reappears => resp'.kind = "post"]_vars

C29_CloseReopenRoundTrip ==
    last.op = "close, reopen" =>
        /\ RowOrZero(hist, last.ws, today) = RowOrZero(last.before, last.ws, today)
        /\ \A k \in DOMAIN hist : k # <<last.ws, today>> => hist[k] = last.before[k]

\* C29: a confirmed vulnerability of a tracked severity was closed and
\* reopened on a day that had no row yet.
C29_Witness ==
    /\ last.op = "close, reopen"
    /\ last.old.confirmed
    /\ last.old.severity \in SEVERITIES_ALLOWED
    /\ last.before[<<last.ws, today>>] = NoRow
    /\ hist[<<last.ws, today>>] # NoRow

====
